---- MODULE Spec2Model ----
(***************************************************************************)
(* Model of the metadata transform engine of musictrack-cli (src/app.py):  *)
(* Transform, TransformList, the Track and Album objects, the              *)
(* reconciliation run App.apply_transforms over the album and track        *)
(* tables, the album resolver App.set_album_id, App.log_track and          *)
(* App.add_album.                                                          *)
(*                                                                         *)
(* Five specifications share the variables:                                *)
(*   SpecT      one Transform applied to one Track or Album object         *)
(*   Spec       a TransformList built by add_transform and applied to one  *)
(*              Track or Album object                                      *)
(*   SpecRecon  App.apply_transforms, step by step, over a stored album    *)
(*              and track table                                            *)
(*   SpecApp    one App instance calling set_album_id and log_track        *)
(*   SpecAlbum  App.add_album on a store filled by earlier runs            *)
(***************************************************************************)
EXTENDS Integers, Sequences, FiniteSets, TLC

(***************************************************************************)
(* Bounds of the model.                                                    *)
(***************************************************************************)
\* largest transform id (tid) handed to add_transform
MaxId == 3
\* largest number of transforms stored in one TransformList
MaxLen == 2
\* largest transform id used when one Transform is applied on its own
MaxPk == 2
\* largest number of rows in the album and track tables together
MaxRows == 2
\* largest transform id (tid) in the transform table of a reconciliation
MaxTid == 2

\* the longest file list handed to add_album and to log_filenames
MaxFiles == 3
\* the longest file handed to log_filenames, in seconds
MaxSeconds == 2

VARIABLES
    tl,        \* the TransformList in use: [transforms, max_id]
    rec,       \* the Track/Album object the engine is applied to
    pre,       \* rec as it was before the last operation
    preTl,     \* tl as it was before the last operation
    arg,       \* the Transform passed to the last operation (NoArg if none)
    calls,     \* the Transform.apply_* calls of the last TransformList pass
    raised,    \* whether the last operation raised an Exception
    lastOp,    \* name of the last operation
    prevOp,    \* name of the operation before it
    albums,    \* album table as the connection sees it: alid -> row
    tracks,    \* track table as the connection sees it: id -> row
    run,       \* state of the App.apply_transforms generator
    durable,   \* the tables as last committed: [albums, tracks]
    accepted,  \* the ids add_transform has stored in tl, in call order
    album_map, \* App.album_map: the cache of set_album_id, key -> album id
    ret,       \* what the last App operation returned
    preApp,    \* albums, tracks and album_map before the last App operation
    queries    \* the album lookups (artist, album) the last App operation ran

engineVars == <<tl, rec, pre, preTl, arg, calls, raised, lastOp, prevOp, accepted>>
storeVars == <<albums, tracks, run, durable>>
appVars == <<album_map, ret, preApp, queries>>
vars == <<tl, rec, pre, preTl, arg, calls, raised, lastOp, prevOp, accepted, albums, tracks, run, durable, album_map, ret, preApp, queries>>

NoArg == [pk |-> 0]

\* App.__init__: self.album_map = {}
NoMap == [k \in {} |-> 0]

\* no App operation has returned yet
NoRet == "none"

\* no App operation has run yet
NoApp == [albums |-> <<>>, tracks |-> <<>>, album_map |-> NoMap]

(***************************************************************************)
(* Transform                                                               *)
(***************************************************************************)
\* Transform.__init__
Transform(pk, cond_artist, cond_album, cond_title, change_artist, change_album, change_title, pattern_artist, pattern_album, pattern_title, to_artist, to_album, to_title) ==
    [pk |-> pk,
     cond_artist |-> cond_artist, cond_album |-> cond_album, cond_title |-> cond_title,
     change_artist |-> change_artist, change_album |-> change_album,
     change_title |-> change_title,
     pattern_artist |-> pattern_artist, pattern_album |-> pattern_album,
     pattern_title |-> pattern_title,
     to_artist |-> to_artist, to_album |-> to_album, to_title |-> to_title]

\* Track.__init__
Track(artist, album, title, tracknum, seconds, album_id, last_transform, pk) ==
    [kind |-> "track", artist |-> artist, album |-> album, title |-> title,
     tracknum |-> tracknum, seconds |-> seconds, album_id |-> album_id,
     last_transform |-> last_transform, transformed |-> FALSE, pk |-> pk]

\* Album.__init__
Album(artist, album, album_type, totaltracks, totalseconds, last_transform, pk) ==
    [kind |-> "album", artist |-> artist, album |-> album, album_type |-> album_type,
     totaltracks |-> totaltracks, totalseconds |-> totalseconds,
     last_transform |-> last_transform, transformed |-> FALSE, pk |-> pk]

\* Faulty variant of track_matched: a transform without conditions matches.
track_matched_vacuous(self, track) ==
    /\ ~(self.cond_artist /\ track.artist # self.pattern_artist)
    /\ ~(self.cond_album /\ track.album # self.pattern_album)
    /\ ~(self.cond_title /\ track.title # self.pattern_title)

\* Faulty variant of track_matched: one matching condition is enough.
track_matched_any(self, track) ==
    \/ self.cond_artist /\ track.artist = self.pattern_artist
    \/ self.cond_album /\ track.album = self.pattern_album
    \/ self.cond_title /\ track.title = self.pattern_title

\* Transform.apply_track, the value of `matched` after the condition tests
track_matched(self, track) ==
    IF self.cond_artist \/ self.cond_album \/ self.cond_title
    THEN /\ ~(self.cond_artist /\ track.artist # self.pattern_artist)
         /\ ~(self.cond_album /\ track.album # self.pattern_album)
         /\ ~(self.cond_title /\ track.title # self.pattern_title)
    ELSE FALSE

\* Faulty variant of track_changes: the change flags are not consulted and
\* the track is detached from its album.
track_changes_all_fields(self, track) ==
    [track EXCEPT !.artist = self.to_artist, !.album = self.to_album,
                  !.title = self.to_title, !.album_id = 0, !.transformed = TRUE]

\* Transform.apply_track, the changes made when the transform matched
track_changes(self, track) ==
    LET t1 == IF self.change_artist /\ track.artist # self.to_artist
              THEN [track EXCEPT !.artist = self.to_artist, !.transformed = TRUE]
              ELSE track
        t2 == IF self.change_album /\ t1.album # self.to_album
              THEN [t1 EXCEPT !.album = self.to_album, !.transformed = TRUE]
              ELSE t1
    IN  IF self.change_title /\ t2.title # self.to_title
        THEN [t2 EXCEPT !.title = self.to_title, !.transformed = TRUE]
        ELSE t2

\* Faulty variant of Transform_apply_track: the watermark moves only on a match.
Transform_apply_track_mark_on_match(self, track) ==
    IF track_matched(self, track)
    THEN [track_changes(self, track) EXCEPT !.last_transform = self.pk]
    ELSE track

\* Transform.apply_track
Transform_apply_track(self, track) ==
    LET changed == IF track_matched(self, track)
                   THEN track_changes(self, track)
                   ELSE track
    IN  [changed EXCEPT !.last_transform = self.pk]

\* Faulty variant of album_inapplicable: only a title condition closes the gate.
album_inapplicable_cond_only(self) == self.cond_title

\* Transform.apply_album, the test that makes the transform skip an album
album_inapplicable(self) == self.cond_title \/ self.change_title

\* Transform.apply_album, the value of `matched` after the condition tests
album_matched(self, album) ==
    IF self.cond_artist \/ self.cond_album
    THEN /\ ~(self.cond_artist /\ album.artist # self.pattern_artist)
         /\ ~(self.cond_album /\ album.album # self.pattern_album)
    ELSE FALSE

\* Faulty variant of album_changes: every enabled change raises the flag.
album_changes_flag_always(self, album) ==
    LET a1 == IF self.change_artist
              THEN [album EXCEPT !.artist = self.to_artist, !.transformed = TRUE]
              ELSE album
    IN  IF self.change_album
        THEN [a1 EXCEPT !.album = self.to_album, !.transformed = TRUE]
        ELSE a1

\* Transform.apply_album, the changes made when the transform matched
album_changes(self, album) ==
    LET a1 == IF self.change_artist /\ album.artist # self.to_artist
              THEN [album EXCEPT !.artist = self.to_artist, !.transformed = TRUE]
              ELSE album
    IN  IF self.change_album /\ a1.album # self.to_album
        THEN [a1 EXCEPT !.album = self.to_album, !.transformed = TRUE]
        ELSE a1

\* Faulty variant of Transform_apply_album: the watermark is set also by a
\* transform that has a title condition or change.
Transform_apply_album_mark_always(self, album) ==
    IF album_inapplicable(self)
    THEN [album EXCEPT !.last_transform = self.pk]
    ELSE LET changed == IF album_matched(self, album)
                        THEN album_changes(self, album)
                        ELSE album
         IN  [changed EXCEPT !.last_transform = self.pk]

\* Transform.apply_album
Transform_apply_album(self, album) ==
    IF album_inapplicable(self)
    THEN album
    ELSE LET changed == IF album_matched(self, album)
                        THEN album_changes(self, album)
                        ELSE album
         IN  [changed EXCEPT !.last_transform = self.pk]

(***************************************************************************)
(* TransformList                                                           *)
(***************************************************************************)
\* TransformList.__init__
TransformList == [transforms |-> <<>>, max_id |-> 0]

\* TransformList.__len__
len(self) == Cardinality(DOMAIN self.transforms)

\* Faulty variant of add_transform_raises: only a stored pk is refused.
add_transform_raises_dup_only(self, transform) ==
    transform.pk \in DOMAIN self.transforms

\* TransformList.add_transform, the data integrity checks
add_transform_raises(self, transform) ==
    \/ transform.pk \in DOMAIN self.transforms
    \/ transform.pk <= self.max_id

\* Faulty variant of add_transform: the transform is stored before the checks.
add_transform_store_first(self, transform) ==
    IF add_transform_raises(self, transform)
    THEN [tl |-> [self EXCEPT !.transforms = (transform.pk :> transform) @@ self.transforms],
          raised |-> TRUE]
    ELSE [tl |-> [transforms |-> (transform.pk :> transform) @@ self.transforms,
                  max_id |-> transform.pk],
          raised |-> FALSE]

\* TransformList.add_transform: the list after the call, and whether it raised
add_transform(self, transform) ==
    IF add_transform_raises(self, transform)
    THEN [tl |-> self, raised |-> TRUE]
    ELSE [tl |-> [transforms |-> (transform.pk :> transform) @@ self.transforms,
                  max_id |-> transform.pk],
          raised |-> FALSE]

\* TransformList.apply_*: first value of range(last_transform+1, max_id+1)
loop_first(record) == record.last_transform + 1

\* TransformList.apply_*: last value of range(last_transform+1, max_id+1)
loop_last(self) == self.max_id

\* TransformList.apply_*: the "nothing to do" test
up_to_date(self, record) == record.last_transform >= self.max_id

\* One call of Transform.apply_track / apply_album as seen by an observer
Call(num, record) == [pk |-> num, seen |-> record]

RECURSIVE apply_track_loop_stop_at_gap(_, _, _, _, _)
\* Faulty variant of apply_track_loop: the loop ends at the first missing id.
apply_track_loop_stop_at_gap(self, track, num, last, trace) ==
    IF num > last \/ num \notin DOMAIN self.transforms
    THEN [rec |-> track, calls |-> trace]
    ELSE apply_track_loop_stop_at_gap(self,
             Transform_apply_track(self.transforms[num], track),
             num + 1, last, Append(trace, Call(num, track)))

RECURSIVE apply_track_loop_original_values(_, _, _, _, _)
\* Faulty variant of apply_track_loop: every transform is matched against the
\* values the track had when the pass began.
apply_track_loop_original_values(self, track, num, last, trace) ==
    IF num > last
    THEN [rec |-> track, calls |-> trace]
    ELSE IF num \in DOMAIN self.transforms
         THEN LET first == IF trace = <<>> THEN track ELSE trace[1].seen
                  t == self.transforms[num]
                  after == IF track_matched(t, first) THEN track_changes(t, track) ELSE track
              IN  apply_track_loop_original_values(self,
                      [after EXCEPT !.last_transform = t.pk],
                      num + 1, last, Append(trace, Call(num, track)))
         ELSE apply_track_loop_original_values(self, track, num + 1, last, trace)

RECURSIVE apply_track_loop(_, _, _, _, _)
\* TransformList.apply_track, the for loop from num on
apply_track_loop(self, track, num, last, trace) ==
    IF num > last
    THEN [rec |-> track, calls |-> trace]
    ELSE IF num \in DOMAIN self.transforms
         THEN apply_track_loop(self, Transform_apply_track(self.transforms[num], track),
                               num + 1, last, Append(trace, Call(num, track)))
         ELSE apply_track_loop(self, track, num + 1, last, trace)

\* Faulty variant of TransformList_apply_track: the watermark is ignored.
TransformList_apply_track_from_start(self, track) ==
    apply_track_loop(self, track, 1, loop_last(self), <<>>)

\* TransformList.apply_track: the track after the call, and the calls made
TransformList_apply_track(self, track) ==
    IF up_to_date(self, track)
    THEN [rec |-> track, calls |-> <<>>]
    ELSE apply_track_loop(self, track, loop_first(track), loop_last(self), <<>>)

RECURSIVE apply_album_loop(_, _, _, _, _)
\* TransformList.apply_album, the for loop from num on
apply_album_loop(self, album, num, last, trace) ==
    IF num > last
    THEN [rec |-> album, calls |-> trace]
    ELSE IF num \in DOMAIN self.transforms
         THEN apply_album_loop(self, Transform_apply_album(self.transforms[num], album),
                               num + 1, last, Append(trace, Call(num, album)))
         ELSE apply_album_loop(self, album, num + 1, last, trace)

\* Faulty variant of TransformList_apply_album: the watermark is ignored.
TransformList_apply_album_from_start(self, album) ==
    apply_album_loop(self, album, 1, loop_last(self), <<>>)

\* TransformList.apply_album: the album after the call, and the calls made
TransformList_apply_album(self, album) ==
    IF up_to_date(self, album)
    THEN [rec |-> album, calls |-> <<>>]
    ELSE apply_album_loop(self, album, loop_first(album), loop_last(self), <<>>)

(***************************************************************************)
(* The album and track tables (App.schema_album, App.schema_track) and the *)
(* statements Track and Album run against them.  A table is a sequence of  *)
(* rows; the primary key of a row is its index (auto_increment).           *)
(***************************************************************************)
\* the row Album.insert / Album.update writes for an Album object
AlbumRow(album) ==
    [alartist |-> album.artist, alalbum |-> album.album,
     totaltracks |-> album.totaltracks, totalseconds |-> album.totalseconds,
     lasttransform |-> album.last_transform, altype |-> album.album_type]

\* the row Track.insert writes for a Track object
TrackRow(track, source, timestamp) ==
    [artist |-> track.artist, album |-> track.album, title |-> track.title,
     tracknum |-> track.tracknum, seconds |-> track.seconds,
     album_id |-> track.album_id, lasttransform |-> track.last_transform,
     source |-> source, timestamp |-> timestamp]

\* Album.from_database_row
Album_from_database_row(alid, row) ==
    Album(row.alartist, row.alalbum, row.altype, row.totaltracks, row.totalseconds,
          row.lasttransform, alid)

\* Track.from_database_row
Track_from_database_row(id, row) ==
    Track(row.artist, row.album, row.title, row.tracknum, row.seconds, row.album_id,
          row.lasttransform, id)

\* Album.get_all_need_transform
Album_get_all_need_transform(table, max_transform) ==
    {Album_from_database_row(i, table[i]) :
        i \in {j \in DOMAIN table : table[j].lasttransform < max_transform}}

\* Track.get_all_need_transform
Track_get_all_need_transform(table, max_transform) ==
    {Track_from_database_row(i, table[i]) :
        i \in {j \in DOMAIN table : table[j].lasttransform < max_transform}}

\* Faulty variant of ensure_data_raises: only totaltracks is tested.
ensure_data_raises_tracks_only(album) == album.totaltracks = 0

\* Album.ensure_data raises
ensure_data_raises(album) == album.totaltracks = 0 \/ album.totalseconds = 0

\* unique index idx_total (alartist, alalbum): another row holds the pair
idx_total_violated(table, alid, artist, album) ==
    \E i \in DOMAIN table :
        i # alid /\ table[i].alartist = artist /\ table[i].alalbum = album

\* Album.insert: the table after the call, and whether it raised
Album_insert(table, album) ==
    IF ensure_data_raises(album) \/ idx_total_violated(table, 0, album.artist, album.album)
    THEN [table |-> table, raised |-> TRUE]
    ELSE [table |-> Append(table, AlbumRow(album)), raised |-> FALSE]

\* Faulty variant of Album_update: alartist and alalbum are not in the set list.
Album_update_names_kept(table, album) ==
    IF album.pk = 0 \/ ensure_data_raises(album)
    THEN [table |-> table, raised |-> TRUE]
    ELSE [table |-> IF album.pk \in DOMAIN table
                    THEN [table EXCEPT ![album.pk] =
                             [AlbumRow(album) EXCEPT !.alartist = table[album.pk].alartist,
                                                     !.alalbum = table[album.pk].alalbum]]
                    ELSE table,
          raised |-> FALSE]

\* Album.update: the table after the call, and whether it raised
Album_update(table, album) ==
    IF \/ album.pk = 0
       \/ ensure_data_raises(album)
       \/ idx_total_violated(table, album.pk, album.artist, album.album)
    THEN [table |-> table, raised |-> TRUE]
    ELSE [table |-> IF album.pk \in DOMAIN table
                    THEN [table EXCEPT ![album.pk] = AlbumRow(album)]
                    ELSE table,
          raised |-> FALSE]

\* Track.insert: the table after the call
Track_insert(table, track, source, timestamp) ==
    Append(table, TrackRow(track, source, timestamp))

\* Faulty variant of Track_update: the statement has no where clause.
Track_update_no_where(table, track) ==
    IF track.pk = 0
    THEN [table |-> table, raised |-> TRUE]
    ELSE [table |-> [i \in DOMAIN table |->
                        [table[i] EXCEPT !.artist = track.artist, !.album = track.album,
                                         !.album_id = track.album_id, !.title = track.title,
                                         !.tracknum = track.tracknum,
                                         !.seconds = track.seconds]],
          raised |-> FALSE]

\* Track.update: the table after the call, and whether it raised
Track_update(table, track) ==
    IF track.pk = 0
    THEN [table |-> table, raised |-> TRUE]
    ELSE [table |-> IF track.pk \in DOMAIN table
                    THEN [table EXCEPT ![track.pk] =
                             [@ EXCEPT !.artist = track.artist, !.album = track.album,
                                       !.album_id = track.album_id, !.title = track.title,
                                       !.tracknum = track.tracknum,
                                       !.seconds = track.seconds]]
                    ELSE table,
          raised |-> FALSE]

\* Faulty variant of bulk_update: the row with the largest key is left out.
bulk_update_exclusive(table, lasttransform, max_pk) ==
    [i \in DOMAIN table |->
        IF i < max_pk THEN [table[i] EXCEPT !.lasttransform = lasttransform] ELSE table[i]]

\* Faulty variant of bulk_update: the rows are set one id short.
bulk_update_one_short(table, lasttransform, max_pk) ==
    [i \in DOMAIN table |->
        IF i <= max_pk THEN [table[i] EXCEPT !.lasttransform = lasttransform - 1]
        ELSE table[i]]

\* App.apply_transforms: update ... set lasttransform=%s where (al)id <= %s
bulk_update(table, lasttransform, max_pk) ==
    [i \in DOMAIN table |->
        IF i <= max_pk THEN [table[i] EXCEPT !.lasttransform = lasttransform] ELSE table[i]]

\* db.commit(): the tables the connection sees become the committed ones
db_commit(albumTable, trackTable) == [albums |-> albumTable, tracks |-> trackTable]

\* insert and update: if commit: db.commit()
commit_if(commit, albumTable, trackTable, held) ==
    IF commit THEN db_commit(albumTable, trackTable) ELSE held

(***************************************************************************)
(* App: the album resolver set_album_id with its cache album_map, and      *)
(* log_track                                                               *)
(***************************************************************************)
\* App.set_album_id: albumkey = '%s / %s' % (track.artist, track.album)
albumkey(track) == track.artist \o " / " \o track.album

\* select alid from album where alartist=%s and alalbum=%s limit 1
select_alid(table, artist, album) ==
    {i \in DOMAIN table : table[i].alartist = artist /\ table[i].alalbum = album}

\* one lookup of set_album_id as seen by an observer
Query(artist, album) == [artist |-> artist, album |-> album]

\* what set_album_id hands back: the track, the cache, the id and the lookups
Resolution(track, map, id, lookups) ==
    [track |-> [track EXCEPT !.album_id = id],
     album_map |-> map, ret |-> id, queries |-> lookups]

\* set_album_id past the cache test: specific album, then Various, then 0
set_album_id_lookup(map, table, track) ==
    LET key == albumkey(track)
        q1 == Query(track.artist, track.album)
        q2 == Query("Various", track.album)
        specific == select_alid(table, track.artist, track.album)
        various == select_alid(table, "Various", track.album)
    IN  IF specific # {}
        THEN LET id == CHOOSE i \in specific : TRUE
             IN  Resolution(track, (key :> id) @@ map, id, <<q1>>)
        ELSE IF various # {}
             THEN LET id == CHOOSE i \in various : TRUE
                  IN  Resolution(track, (key :> id) @@ map, id, <<q1, q2>>)
             ELSE Resolution(track, (key :> 0) @@ map, 0, <<q1, q2>>)

\* Faulty variant of App_set_album_id: the Various album is tried first.
App_set_album_id_various_first(map, table, track) ==
    LET key == albumkey(track)
        q1 == Query(track.artist, track.album)
        q2 == Query("Various", track.album)
        specific == select_alid(table, track.artist, track.album)
        various == select_alid(table, "Various", track.album)
    IN  IF key \in DOMAIN map
        THEN Resolution(track, map, map[key], <<>>)
        ELSE IF various # {}
             THEN LET id == CHOOSE i \in various : TRUE
                  IN  Resolution(track, (key :> id) @@ map, id, <<q2>>)
             ELSE IF specific # {}
                  THEN LET id == CHOOSE i \in specific : TRUE
                       IN  Resolution(track, (key :> id) @@ map, id, <<q2, q1>>)
                  ELSE Resolution(track, (key :> 0) @@ map, 0, <<q2, q1>>)

\* Faulty variant of App_set_album_id: a cached 0 is looked up again.
App_set_album_id_retry_zero(map, table, track) ==
    IF albumkey(track) \in DOMAIN map /\ map[albumkey(track)] # 0
    THEN Resolution(track, map, map[albumkey(track)], <<>>)
    ELSE set_album_id_lookup(map, table, track)

\* App.set_album_id
App_set_album_id(map, table, track) ==
    IF albumkey(track) \in DOMAIN map
    THEN Resolution(track, map, map[albumkey(track)], <<>>)
    ELSE set_album_id_lookup(map, table, track)

\* a timestamp argument left at None; a timestamp t is handed over as <<t>>
NoTimestamp == <<>>

\* datetime.datetime.now() and time.localtime(): the reading of the clock
Now == 100

\* log_track: timestamp, defaulting to the current time
log_track_timestamp(timestamp, now) == IF timestamp = NoTimestamp THEN now ELSE timestamp[1]

\* what log_track leaves: the track, the cache, the track table, the lookups
Logged(resolution, table, source, timestamp) ==
    [track |-> [resolution.track EXCEPT !.pk = Len(table) + 1],
     album_map |-> resolution.album_map,
     tracks |-> Track_insert(table, resolution.track, source, timestamp),
     queries |-> resolution.queries]

\* Faulty variant of App_log_track: the album is resolved before the transforms.
App_log_track_resolve_first(self, map, albumTable, trackTable, track, source, timestamp, now) ==
    LET resolution == App_set_album_id(map, albumTable, track)
        applied == TransformList_apply_track(self, resolution.track).rec
    IN  Logged([resolution EXCEPT !.track = applied], trackTable, source,
               log_track_timestamp(timestamp, now))

\* App.log_track
App_log_track(self, map, albumTable, trackTable, track, source, timestamp, now) ==
    LET applied == TransformList_apply_track(self, track).rec
        resolution == App_set_album_id(map, albumTable, applied)
    IN  Logged(resolution, trackTable, source, log_track_timestamp(timestamp, now))

\* Faulty variant of Track_get_all_unassociated: album_id = 0 is not asked for.
Track_get_all_unassociated_any_id(table) ==
    {Track_from_database_row(i, table[i]) : i \in {j \in DOMAIN table : table[j].album # ""}}

\* Track.get_all_unassociated
Track_get_all_unassociated(table) ==
    {Track_from_database_row(i, table[i]) :
        i \in {j \in DOMAIN table : table[j].album_id = 0 /\ table[j].album # ""}}

\* what associate_albums leaves: the track table, the cache, the keys not found
Associated(table, map, not_found) ==
    [tracks |-> table, album_map |-> map, not_found |-> not_found]

RECURSIVE associate_albums_loop(_, _, _, _, _)
\* associate_albums, the loop over the tracks still to do, in id order
associate_albums_loop(map, albumTable, trackTable, todo, not_found) ==
    IF todo = {}
    THEN Associated(trackTable, map, not_found)
    ELSE LET track == CHOOSE t \in todo : \A u \in todo : t.pk <= u.pk
             r == App_set_album_id(map, albumTable, track)
         IN  IF r.ret = 0
             THEN associate_albums_loop(r.album_map, albumTable, trackTable,
                                        todo \ {track}, not_found \cup {albumkey(track)})
             ELSE associate_albums_loop(r.album_map, albumTable,
                                        Track_update(trackTable, r.track).table,
                                        todo \ {track}, not_found)

\* App.associate_albums, iterated to its end
App_associate_albums(map, albumTable, trackTable) ==
    associate_albums_loop(map, albumTable, trackTable,
                          Track_get_all_unassociated(trackTable), {})

(***************************************************************************)
(* App.add_album.  A file is what Track.from_filename finds at a filename: *)
(* loads is FALSE when the file is missing or its type is not understood.  *)
(***************************************************************************)
\* App.max_artist_album_length
max_artist_album_length == 200

\* a file on disk with its tags and its length
File(loads, artist, album, seconds) ==
    [loads |-> loads, artist |-> artist, album |-> album, title |-> "T", seconds |-> seconds]

\* Track.from_filename for a file that loads
Track_from_filename(file) ==
    Track(file.artist, file.album, file.title, "None", file.seconds, 0, 0, 0)

\* a timestamp text as parsedatetime reads it: whether it parses, and to what
Stamp(parses, at) == <<[parses |-> parses, at |-> at]>>

\* what log_filenames leaves: the tracks logged, the cache, the track table, a raise
LoggedFiles(logged, map, table, raise) ==
    [logged |-> logged, album_map |-> map, tracks |-> table, raised |-> raise]

\* log_filenames, the loop that loads every file: Track.from_filename raises
\* on a file that does not load
log_filenames_load_raises(filenames) == \E i \in DOMAIN filenames : ~filenames[i].loads

RECURSIVE log_filenames_total(_)
\* log_filenames: total_seconds += tracks[-1].seconds
log_filenames_total(filenames) ==
    IF filenames = <<>>
    THEN 0
    ELSE Head(filenames).seconds + log_filenames_total(Tail(filenames))

\* Faulty variant of log_filenames_start: the start is moved back also when
\* a timestamp was given.
log_filenames_start_always_back(timestamp, timestamp_start, total_seconds) ==
    timestamp_start - total_seconds

\* log_filenames: if timestamp is None: timestamp_start -= total_seconds
log_filenames_start(timestamp, timestamp_start, total_seconds) ==
    IF timestamp = NoTimestamp THEN timestamp_start - total_seconds ELSE timestamp_start

RECURSIVE log_filenames_loop(_, _, _, _, _, _, _, _, _)
\* log_filenames, the loop that logs the loaded tracks from track i on
log_filenames_loop(self, map, albumTable, trackTable, filenames, i, source, timestamp_start, logged) ==
    IF i > Len(filenames)
    THEN LoggedFiles(logged, map, trackTable, FALSE)
    ELSE LET track == Track_from_filename(filenames[i])
             r == App_log_track(self, map, albumTable, trackTable, track, source,
                                <<timestamp_start>>, timestamp_start)
         IN  log_filenames_loop(self, r.album_map, albumTable, r.tracks, filenames, i + 1,
                                source, timestamp_start + track.seconds,
                                Append(logged, r.track))

\* App.log_filenames
App_log_filenames(self, map, albumTable, trackTable, filenames, source, timestamp, now) ==
    LET unparsed == timestamp # NoTimestamp /\ ~timestamp[1].parses
        timestamp_start == IF timestamp = NoTimestamp THEN now ELSE timestamp[1].at
    IN  IF unparsed THEN LoggedFiles(<<>>, map, trackTable, TRUE)
        ELSE IF Len(filenames) = 0 THEN LoggedFiles(<<>>, map, trackTable, FALSE)
        ELSE IF Len(filenames) = 1
             THEN IF ~filenames[1].loads
                  THEN LoggedFiles(<<>>, map, trackTable, TRUE)
                  ELSE LET r == App_log_track(self, map, albumTable, trackTable,
                                              Track_from_filename(filenames[1]), source,
                                              <<timestamp_start>>, now)
                       IN  LoggedFiles(<<r.track>>, r.album_map, r.tracks, FALSE)
             ELSE IF log_filenames_load_raises(filenames)
                  THEN LoggedFiles(<<>>, map, trackTable, TRUE)
                  ELSE log_filenames_loop(self, map, albumTable, trackTable, filenames, 1,
                           source,
                           log_filenames_start(timestamp, timestamp_start,
                                               log_filenames_total(filenames)),
                           <<>>)

\* Album.get_by_artist_album: the ids of the matching rows
Album_get_by_artist_album(table, artist, album) ==
    {i \in DOMAIN table : table[i].alartist = artist /\ table[i].alalbum = album}

\* add_album before the first file: album_artist = album_album = None
NoTags == [failed |-> FALSE, unset |-> TRUE, album_artist |-> "", album_album |-> "", totalseconds |-> 0, tracks |-> 0]

RECURSIVE add_album_load_last_file_decides(_, _, _)
\* Faulty variant of add_album_load: "Various" does not stick, the album
\* artist follows the file read last.
add_album_load_last_file_decides(filenames, i, acc) ==
    IF i > Len(filenames)
    THEN acc
    ELSE LET file == filenames[i]
             track == Track_from_filename(file)
             failure == [acc EXCEPT !.failed = TRUE]
         IN  IF ~file.loads THEN failure
             ELSE IF track.artist = "" THEN failure
             ELSE IF track.album = "" THEN failure
             ELSE IF acc.unset
                  THEN add_album_load_last_file_decides(filenames, i + 1,
                           [acc EXCEPT !.unset = FALSE,
                                       !.album_artist = track.artist,
                                       !.album_album = track.album,
                                       !.totalseconds = @ + track.seconds,
                                       !.tracks = @ + 1])
                  ELSE IF acc.album_album # track.album THEN failure
                  ELSE add_album_load_last_file_decides(filenames, i + 1,
                           [acc EXCEPT !.album_artist =
                                           IF filenames[1].artist # track.artist
                                           THEN "Various" ELSE track.artist,
                                       !.totalseconds = @ + track.seconds,
                                       !.tracks = @ + 1])

RECURSIVE add_album_load(_, _, _)
\* add_album, the loop over the filenames from file i on
add_album_load(filenames, i, acc) ==
    IF i > Len(filenames)
    THEN acc
    ELSE LET file == filenames[i]
             track == Track_from_filename(file)
             failure == [acc EXCEPT !.failed = TRUE]
         IN  IF ~file.loads THEN failure
             ELSE IF track.artist = "" THEN failure
             ELSE IF track.album = "" THEN failure
             ELSE IF acc.unset
                  THEN add_album_load(filenames, i + 1,
                           [acc EXCEPT !.unset = FALSE,
                                       !.album_artist = track.artist,
                                       !.album_album = track.album,
                                       !.totalseconds = @ + track.seconds,
                                       !.tracks = @ + 1])
                  ELSE IF acc.album_album # track.album THEN failure
                  ELSE add_album_load(filenames, i + 1,
                           [acc EXCEPT !.album_artist =
                                           IF @ # track.artist THEN "Various" ELSE @,
                                       !.totalseconds = @ + track.seconds,
                                       !.tracks = @ + 1])

\* Faulty variant of too_long: no name is refused for its length.
too_long_never(name) == FALSE

\* add_album, the test of a name against the maximum field size
too_long(name) == Len(name) > max_artist_album_length

\* Faulty variant of add_album_lookup: the tags of the files are looked up.
add_album_lookup_raw_tags(table, tagged, album) ==
    Album_get_by_artist_album(table, tagged.artist, tagged.album)

\* add_album, the lookup of an existing album for the transformed album
add_album_lookup(table, tagged, album) ==
    Album_get_by_artist_album(table, album.artist, album.album)

\* what add_album leaves: its return value, the album table, a raise
Added(value, table, raise) == [ret |-> value, albums |-> table, raised |-> raise]

\* Faulty variant of add_album_existing: the update does not wait for force.
add_album_existing_always_update(table, existing_album, album, force_update) ==
    LET updated == [existing_album EXCEPT !.totalseconds = album.totalseconds,
                                          !.totaltracks = album.totaltracks,
                                          !.album_type = album.album_type]
        r == Album_update(table, updated)
    IN  IF r.raised THEN Added(NoRet, table, TRUE) ELSE Added(force_update, r.table, FALSE)

\* add_album, the branch taken when the album exists
add_album_existing(table, existing_album, album, force_update) ==
    LET updated == [existing_album EXCEPT !.totalseconds = album.totalseconds,
                                          !.totaltracks = album.totaltracks,
                                          !.album_type = album.album_type]
        r == Album_update(table, updated)
    IN  IF force_update
        THEN IF r.raised THEN Added(NoRet, table, TRUE) ELSE Added(TRUE, r.table, FALSE)
        ELSE Added(FALSE, table, FALSE)

\* add_album from the Album object on: apply, look up, insert or update
add_album_store(self, table, tagged, force_update) ==
    LET album == TransformList_apply_album(self, tagged).rec
        existing == add_album_lookup(table, tagged, album)
    IN  IF existing = {}
        THEN LET r == Album_insert(table, album)
             IN  IF r.raised THEN Added(NoRet, table, TRUE) ELSE Added(TRUE, r.table, FALSE)
        ELSE LET alid == CHOOSE i \in existing : TRUE
             IN  add_album_existing(table, Album_from_database_row(alid, table[alid]),
                                    album, force_update)

\* add_album, the Album object built from what the loop found in the files
add_album_object(loaded, album_type) ==
    Album(loaded.album_artist, loaded.album_album, album_type,
          loaded.tracks, loaded.totalseconds, 0, 0)

\* App.add_album
App_add_album(self, table, filenames, album_type, force_update) ==
    LET loaded == add_album_load(filenames, 1, NoTags)
    IN  IF Len(filenames) = 0 THEN Added(FALSE, table, FALSE)
        ELSE IF loaded.failed THEN Added(FALSE, table, FALSE)
        ELSE IF too_long(loaded.album_artist) THEN Added(FALSE, table, FALSE)
        ELSE IF too_long(loaded.album_album) THEN Added(FALSE, table, FALSE)
        ELSE add_album_store(self, table, add_album_object(loaded, album_type),
                             force_update)

(***************************************************************************)
(* Inputs                                                                  *)
(***************************************************************************)
\* a name of 201 characters, one more than App.max_artist_album_length
LongName == "zzzzzzzzzzzzzzzzzzzzzzzzzzzzzzzzzzzzzzzzzzzzzzzzzzzzzzzzzzzzzzzzzzzzzzzzzzzzzzzzzzzzzzzzzzzzzzzzzzzzzzzzzzzzzzzzzzzzzzzzzzzzzzzzzzzzzzzzzzzzzzzzzzzzzzzzzzzzzzzzzzzzzzzzzzzzzzzzzzzzzzzzzzzzzzzzzzzzzzzzz"

\* The file lists handed to add_album
FileLists ==
    LET fA == File(TRUE, "A", "X", 120)
        fB == File(TRUE, "B", "X", 120)
        fZ == File(TRUE, "A", "X", 0)
        fY == File(TRUE, "A", "Y", 120)
        fNoArtist == File(TRUE, "", "X", 120)
        fNoAlbum == File(TRUE, "A", "", 120)
        fBad == File(FALSE, "", "", 0)
        fLongArtist == File(TRUE, LongName, "X", 120)
        fLongAlbum == File(TRUE, "A", LongName, 120)
    IN  { <<>>, <<fA>>, <<fB>>, <<fA, fA>>, <<fA, fB>>, <<fZ>>, <<fA, fY>>,
          <<fNoArtist>>, <<fA, fNoArtist>>, <<fNoAlbum>>, <<fBad>>, <<fA, fBad>>,
          <<fLongArtist>>, <<fLongAlbum>>, <<fLongArtist, fA>> }

\* Track objects as the constructor builds them (tracknum None, seconds 0)
NewTracks(artists, albumNames, titles, marks) ==
    {Track(a, b, t, "None", 0, 0, w, 0) :
        a \in artists, b \in albumNames, t \in titles, w \in marks}

\* Album objects as the constructor builds them
NewAlbums(artists, albumNames, marks) ==
    {Album(a, b, "album", 0, 0, w, 0) : a \in artists, b \in albumNames, w \in marks}

\* Every transform over two values per field, with id pk
AllTransforms(pk) ==
    {Transform(pk, ca, cb, ct, xa, xb, xt, pa, pb, pt, ta, tb, tt) :
        ca \in BOOLEAN, cb \in BOOLEAN, ct \in BOOLEAN,
        xa \in BOOLEAN, xb \in BOOLEAN, xt \in BOOLEAN,
        pa \in {"A", "B"}, pb \in {"X", "Y"}, pt \in {"T", "U"},
        ta \in {"A", "B"}, tb \in {"X", "Y"}, tt \in {"T", "U"}}

\* The transforms handed to add_transform, with id pk
Pool(pk) ==
    { Transform(pk, TRUE, FALSE, FALSE, TRUE, FALSE, FALSE, "A", "", "", "B", "", ""),
      Transform(pk, TRUE, FALSE, FALSE, TRUE, FALSE, FALSE, "B", "", "", "C", "", ""),
      Transform(pk, TRUE, FALSE, FALSE, TRUE, FALSE, FALSE, "B", "", "", "A", "", ""),
      Transform(pk, TRUE, FALSE, FALSE, TRUE, FALSE, FALSE, "A", "", "", "A", "", ""),
      Transform(pk, FALSE, TRUE, FALSE, FALSE, TRUE, FALSE, "", "X", "", "", "Y", ""),
      Transform(pk, TRUE, FALSE, TRUE, FALSE, FALSE, TRUE, "A", "", "T", "", "", "U") }

\* The transforms of the transform table, with id pk
ReconPool(pk) ==
    { Transform(pk, TRUE, FALSE, FALSE, TRUE, FALSE, FALSE, "A", "", "", "B", "", ""),
      Transform(pk, TRUE, FALSE, FALSE, TRUE, FALSE, FALSE, "B", "", "", "A", "", ""),
      Transform(pk, TRUE, FALSE, TRUE, FALSE, FALSE, TRUE, "A", "", "T", "", "", "U") }

\* The transforms of the transform table an App instance loads, with id pk
AppPool(pk) ==
    { Transform(pk, TRUE, FALSE, FALSE, TRUE, FALSE, FALSE, "A", "", "", "B", "", ""),
      Transform(pk, TRUE, FALSE, TRUE, FALSE, FALSE, TRUE, "A", "", "T", "", "", "U") }

\* Faulty variant of apply_transforms_update_commit: commit is left at its default.
apply_transforms_update_commit_default == TRUE

\* App.apply_transforms: album.update and track.update are called with commit=False
apply_transforms_update_commit == FALSE

\* App.apply_transforms entered: the lagging albums are fetched.  The run
\* keeps for an observer the tables it started from (albums0, tracks0), the
\* record of its latest round (last), its commits, the (kind, pk, tid) it
\* has written to the store (absorbed) and those an interrupted run before
\* it had written (before), and whether it applied one of those again (twice).
apply_transforms_start(self, albumTable, trackTable) ==
    [pc |-> "albums",
     todo |-> Album_get_all_need_transform(albumTable, self.max_id),
     max_album_id |-> -1, max_track_id |-> -1,
     albums0 |-> albumTable, tracks0 |-> trackTable, last |-> NoArg, commits |-> 0,
     absorbed |-> {}, before |-> {}, twice |-> FALSE, resumed |-> FALSE,
     origin |-> db_commit(albumTable, trackTable)]

\* the (kind, pk, tid) of the transforms a pass called on a record
Applied(pass, upto) ==
    {[kind |-> pass.rec.kind, pk |-> pass.rec.pk, tid |-> pass.calls[i].pk] :
        i \in {j \in DOMAIN pass.calls : pass.calls[j].pk <= upto}}

\* App.apply_transforms not started
Idle == [pc |-> "idle"]

(***************************************************************************)
(* SpecT: one Transform applied to one record.  The record is a Track or an *)
(* Album as constructed or loaded, or one an earlier pass left dirty.      *)
(***************************************************************************)
InitT ==
    /\ tl = TransformList
    /\ \E r \in NewTracks({"A", "B"}, {"X", "Y"}, {"T", "U"}, 0 .. MaxPk)
                 \cup NewAlbums({"A", "B"}, {"X", "Y"}, 0 .. MaxPk) :
          \E d \in BOOLEAN : rec = [r EXCEPT !.transformed = d]
    /\ pre = rec
    /\ preTl = tl
    /\ arg = NoArg
    /\ calls = <<>>
    /\ raised = FALSE
    /\ lastOp = "init"
    /\ prevOp = "init"
    /\ albums = <<>>
    /\ tracks = <<>>
    /\ run = Idle
    /\ accepted = <<>>
    /\ album_map = NoMap
    /\ ret = NoRet
    /\ preApp = NoApp
    /\ queries = <<>>
    /\ durable = db_commit(albums, tracks)

\* transform.apply_track(rec)
T_ApplyTrack ==
    /\ lastOp = "init"
    /\ rec.kind = "track"
    /\ \E pk \in 1 .. MaxPk : \E t \in AllTransforms(pk) :
          /\ rec' = Transform_apply_track(t, rec)
          /\ arg' = t
    /\ pre' = rec
    /\ lastOp' = "Transform.apply_track"
    /\ prevOp' = lastOp
    /\ UNCHANGED <<tl, preTl, calls, raised, accepted, storeVars, appVars>>

\* transform.apply_album(rec)
T_ApplyAlbum ==
    /\ lastOp = "init"
    /\ rec.kind = "album"
    /\ \E pk \in 1 .. MaxPk : \E t \in AllTransforms(pk) :
          /\ rec' = Transform_apply_album(t, rec)
          /\ arg' = t
    /\ pre' = rec
    /\ lastOp' = "Transform.apply_album"
    /\ prevOp' = lastOp
    /\ UNCHANGED <<tl, preTl, calls, raised, accepted, storeVars, appVars>>

NextT ==
    \/ T_ApplyTrack
    \/ T_ApplyAlbum

SpecT == InitT /\ [][NextT]_vars

(***************************************************************************)
(* Spec: a TransformList applied to one record                             *)
(***************************************************************************)
Init ==
    /\ tl = TransformList
    /\ rec \in NewTracks({"A", "B"}, {"X"}, {"T"}, 0 .. MaxId)
               \cup NewAlbums({"A", "B"}, {"X"}, 0 .. MaxId)
    /\ pre = rec
    /\ preTl = tl
    /\ arg = NoArg
    /\ calls = <<>>
    /\ raised = FALSE
    /\ lastOp = "init"
    /\ prevOp = "init"
    /\ albums = <<>>
    /\ tracks = <<>>
    /\ run = Idle
    /\ accepted = <<>>
    /\ album_map = NoMap
    /\ ret = NoRet
    /\ preApp = NoApp
    /\ queries = <<>>
    /\ durable = db_commit(albums, tracks)

\* tl.add_transform(t)
AddTransform ==
    /\ len(tl) < MaxLen
    /\ \E pk \in 0 .. MaxId : \E t \in Pool(pk) :
          LET r == add_transform(tl, t)
          IN  /\ tl' = r.tl
              /\ raised' = r.raised
              /\ accepted' = IF r.raised THEN accepted ELSE Append(accepted, t.pk)
              /\ arg' = t
    /\ preTl' = tl
    /\ pre' = rec
    /\ calls' = <<>>
    /\ lastOp' = "add_transform"
    /\ prevOp' = lastOp
    /\ UNCHANGED <<rec, storeVars, appVars>>

\* tl.apply_track(rec)
ApplyTrack ==
    /\ rec.kind = "track"
    /\ LET r == TransformList_apply_track(tl, rec)
       IN  /\ rec' = r.rec
           /\ calls' = r.calls
    /\ pre' = rec
    /\ preTl' = tl
    /\ arg' = NoArg
    /\ raised' = FALSE
    /\ lastOp' = "apply_track"
    /\ prevOp' = lastOp
    /\ UNCHANGED <<tl, accepted, storeVars, appVars>>

\* tl.apply_album(rec)
ApplyAlbum ==
    /\ rec.kind = "album"
    /\ LET r == TransformList_apply_album(tl, rec)
       IN  /\ rec' = r.rec
           /\ calls' = r.calls
    /\ pre' = rec
    /\ preTl' = tl
    /\ arg' = NoArg
    /\ raised' = FALSE
    /\ lastOp' = "apply_album"
    /\ prevOp' = lastOp
    /\ UNCHANGED <<tl, accepted, storeVars, appVars>>

Next ==
    \/ AddTransform
    \/ ApplyTrack
    \/ ApplyAlbum

Spec == Init /\ [][Next]_vars

(***************************************************************************)
(* Vocabulary of the properties                                            *)
(***************************************************************************)
IsOneApply == lastOp \in {"Transform.apply_track", "Transform.apply_album"}

IsListApply == lastOp \in {"apply_track", "apply_album"}

\* r1 and r2 carry the same artist/album/title (an Album has no title)
SameFields(r1, r2) ==
    /\ r1.artist = r2.artist
    /\ r1.album = r2.album
    /\ (r1.kind = "track" => r1.title = r2.title)

\* t refers to no field that r lacks
Applicable(t, r) == r.kind = "track" \/ ~(t.cond_title \/ t.change_title)

HasCond(t) == t.cond_artist \/ t.cond_album \/ t.cond_title

\* every enabled condition of t holds of r's current values
CondsHold(t, r) ==
    /\ t.cond_artist => r.artist = t.pattern_artist
    /\ t.cond_album => r.album = t.pattern_album
    /\ (t.cond_title /\ r.kind = "track") => r.title = t.pattern_title

\* some enabled change of t carries a replacement r does not hold yet
WouldChange(t, r) ==
    \/ t.change_artist /\ r.artist # t.to_artist
    \/ t.change_album /\ r.album # t.to_album
    \/ t.change_title /\ r.kind = "track" /\ r.title # t.to_title

\* the fields of r after the enabled changes of t
FieldsAfterChanges(t, r, after) ==
    /\ after.artist = IF t.change_artist THEN t.to_artist ELSE r.artist
    /\ after.album = IF t.change_album THEN t.to_album ELSE r.album
    /\ r.kind = "track" => after.title = IF t.change_title THEN t.to_title ELSE r.title

(***************************************************************************)
(* Properties of one Transform (SpecT)                                     *)
(***************************************************************************)
\* C5: Transform.apply_album with a title condition or a title change set
\* leaves the album exactly as it was (artist, album, watermark, dirty flag),
\* also when its artist/album conditions match and it declares changes.
C5_AlbumGate ==
    (lastOp = "Transform.apply_album" /\ (arg.cond_title \/ arg.change_title))
        => rec = pre

C5_Witness ==
    /\ lastOp = "Transform.apply_album"
    /\ arg.change_title /\ ~arg.cond_title
    /\ arg.cond_artist /\ arg.pattern_artist = pre.artist /\ ~arg.cond_album
    /\ arg.change_artist /\ arg.to_artist # pre.artist
    /\ arg.pk # pre.last_transform
    /\ ~pre.transformed
    /\ rec = pre

\* C6 as stated: an applicable transform changes a field of the record exactly
\* when it has an enabled condition and all its enabled conditions hold.
C6_MutatesIffMatched ==
    (IsOneApply /\ Applicable(arg, pre))
        => (~SameFields(pre, rec) <=> (HasCond(arg) /\ CondsHold(arg, pre)))

\* C6 amended: an applicable transform changes a field exactly when it has an
\* enabled condition, all its enabled conditions hold and some enabled change
\* carries a replacement the record does not hold yet; when it matched every
\* enabled change's field ends at its replacement, the other fields are kept
\* and the dirty flag is raised iff a value differed; when a condition fails
\* no field is changed and the dirty flag is as before.
C6_Conjunction ==
    (IsOneApply /\ Applicable(arg, pre))
        => LET matched == HasCond(arg) /\ CondsHold(arg, pre)
           IN  /\ ~SameFields(pre, rec) <=> (matched /\ WouldChange(arg, pre))
               /\ matched => /\ FieldsAfterChanges(arg, pre, rec)
                             /\ rec.transformed
                                   = (pre.transformed \/ WouldChange(arg, pre))
               /\ ~matched => /\ SameFields(pre, rec)
                              /\ rec.transformed = pre.transformed

C6_Witness ==
    /\ lastOp = "Transform.apply_track"
    /\ arg.cond_artist /\ arg.cond_album /\ arg.cond_title
    /\ CondsHold(arg, pre)
    /\ arg.change_artist /\ arg.change_album /\ arg.change_title
    /\ rec.artist # pre.artist /\ rec.album # pre.album /\ rec.title # pre.title
    /\ ~pre.transformed /\ rec.transformed

\* C7: a transform without enabled condition, applied to a record it is
\* applicable to, changes no field and does not raise the dirty flag, whatever
\* its change flags, patterns and replacements, and sets the watermark to its id.
C7_ZeroCondition ==
    (IsOneApply /\ Applicable(arg, pre) /\ ~HasCond(arg))
        => /\ SameFields(pre, rec)
           /\ rec.transformed = pre.transformed
           /\ rec.last_transform = arg.pk

C7_Witness ==
    /\ lastOp = "Transform.apply_track"
    /\ ~HasCond(arg)
    /\ arg.change_artist /\ arg.change_album /\ arg.change_title
    /\ arg.to_artist # pre.artist /\ arg.pattern_artist = pre.artist
    /\ pre.last_transform # arg.pk
    /\ ~pre.transformed /\ ~rec.transformed
    /\ rec.last_transform = arg.pk

(***************************************************************************)
(* Properties of a TransformList pass (Spec)                               *)
(***************************************************************************)
\* the record as call i of the last pass left it
After(i) == IF i < Len(calls) THEN calls[i + 1].seen ELSE rec

\* the ids of the calls of the last pass, in call order
CallSeq == [i \in DOMAIN calls |-> calls[i].pk]

\* Transform.apply_track or Transform.apply_album, by the record's kind
ApplyOne(t, r) ==
    IF r.kind = "track" THEN Transform_apply_track(t, r) ELSE Transform_apply_album(t, r)

\* the stored ids a pass over self has to visit for a record at watermark w
Pending(self, w) == {n \in DOMAIN self.transforms : w < n /\ n <= self.max_id}

RECURSIVE ApplyStored(_, _, _)
\* the stored transforms with id in ids applied to r, smallest id first
ApplyStored(self, r, ids) ==
    IF ids = {}
    THEN r
    ELSE LET n == CHOOSE x \in ids : \A y \in ids : x <= y
         IN  ApplyStored(self, ApplyOne(self.transforms[n], r), ids \ {n})

ArtistRule(t, from, to) ==
    /\ t.cond_artist /\ ~t.cond_album /\ ~t.cond_title
    /\ t.change_artist /\ ~t.change_album /\ ~t.change_title
    /\ t.pattern_artist = from /\ t.to_artist = to

\* C1: a second TransformList.apply_track / apply_album right after the first
\* leaves artist/album/title and last_transform as the first call left them,
\* also for an Album whose watermark stalled below max_id.
C1_Idempotent ==
    (IsListApply /\ prevOp = lastOp)
        => /\ SameFields(rec, pre)
           /\ rec.last_transform = pre.last_transform

C1_Witness ==
    /\ lastOp = "apply_album" /\ prevOp = "apply_album"
    /\ rec.last_transform < tl.max_id
    /\ rec.last_transform > 0
    /\ rec.transformed
    /\ Len(calls) > 0

\* C2: add_transform raises exactly for a pk already stored or <= max_id, and
\* a call that raised leaves the stored transforms, len() and max_id as they were.
C2_RejectedInsert ==
    lastOp = "add_transform"
        => /\ raised <=> (arg.pk \in DOMAIN preTl.transforms \/ arg.pk <= preTl.max_id)
           /\ raised => /\ tl.transforms = preTl.transforms
                        /\ len(tl) = len(preTl)
                        /\ tl.max_id = preTl.max_id
           /\ ~raised => /\ tl.max_id = arg.pk
                         /\ tl.transforms[arg.pk] = arg
                         /\ len(tl) = len(preTl) + 1

C2_Witness ==
    /\ lastOp = "add_transform"
    /\ raised
    /\ arg.pk > 0 /\ arg.pk < preTl.max_id
    /\ arg.pk \notin DOMAIN tl.transforms
    /\ len(tl) = 1

\* C3: one pass on a record at watermark w calls exactly the stored transforms
\* with id in (w, max_id], each once, in increasing id order, and each is
\* applied to the record as the earlier calls of the pass left it; rule 1 A->B
\* followed by rule 2 B->C turns artist A into C, watermark 2, dirty.
C3_OrderedPass ==
    IsListApply
        => /\ {calls[i].pk : i \in DOMAIN calls} = Pending(preTl, pre.last_transform)
           /\ \A i, j \in DOMAIN calls : i < j => calls[i].pk < calls[j].pk
           /\ calls # <<>> => calls[1].seen = pre
           /\ calls = <<>> => rec = pre
           /\ \A i \in DOMAIN calls :
                 After(i) = ApplyOne(preTl.transforms[calls[i].pk], calls[i].seen)
           /\ ( /\ DOMAIN preTl.transforms = {1, 2}
                /\ ArtistRule(preTl.transforms[1], "A", "B")
                /\ ArtistRule(preTl.transforms[2], "B", "C")
                /\ pre.artist = "A" /\ pre.last_transform = 0 /\ ~pre.transformed )
              => (rec.artist = "C" /\ rec.last_transform = 2 /\ rec.transformed)

C3_Witness ==
    /\ lastOp = "apply_track"
    /\ DOMAIN preTl.transforms = {1, 2}
    /\ ArtistRule(preTl.transforms[1], "A", "B")
    /\ ArtistRule(preTl.transforms[2], "B", "C")
    /\ pre.artist = "A" /\ pre.last_transform = 0
    /\ Len(calls) = 2
    /\ rec.artist = "C" /\ rec.last_transform = 2 /\ rec.transformed

\* C8: every applicable transform of a pass leaves the watermark at its id,
\* matched or not; a Track with watermark < max_id ends the pass at max_id.
C8_WatermarkAdvances ==
    IsListApply
        => /\ \A i \in DOMAIN calls :
                 Applicable(preTl.transforms[calls[i].pk], pre)
                     => After(i).last_transform = calls[i].pk
           /\ (lastOp = "apply_track" /\ pre.last_transform < preTl.max_id)
                 => rec.last_transform = preTl.max_id

C8_Witness ==
    /\ lastOp = "apply_track"
    /\ pre.last_transform < preTl.max_id
    /\ Len(calls) = 2
    /\ SameFields(rec, pre) /\ ~rec.transformed
    /\ rec.last_transform = tl.max_id

\* C9 as stated: missing ids are skipped without effect, and with only ids
\* {1, 3} stored a record at watermark 0 has exactly rules 1 and 3 attempted
\* and ends at watermark 3; a record at watermark 2 has only rule 3 attempted.
C9_GapEndsAtThree ==
    IsListApply
        => /\ rec = ApplyStored(preTl, pre, Pending(preTl, pre.last_transform))
           /\ (DOMAIN preTl.transforms = {1, 3} /\ pre.last_transform = 0)
                 => (CallSeq = <<1, 3>> /\ rec.last_transform = 3)
           /\ (DOMAIN preTl.transforms = {1, 3} /\ pre.last_transform = 2)
                 => CallSeq = <<3>>

\* C9 amended: as stated, but the record at watermark 0 ends at watermark 3
\* when rule 3 is applicable to it (always for a Track); an Album with a rule
\* 3 that touches the title ends at 1, or at 0 when rule 1 touches it too.
C9_GapTolerance ==
    IsListApply
        => /\ rec = ApplyStored(preTl, pre, Pending(preTl, pre.last_transform))
           /\ (DOMAIN preTl.transforms = {1, 3} /\ pre.last_transform = 0)
                 => /\ CallSeq = <<1, 3>>
                    /\ rec.last_transform =
                          IF Applicable(preTl.transforms[3], pre) THEN 3
                          ELSE IF Applicable(preTl.transforms[1], pre) THEN 1
                          ELSE 0
           /\ (DOMAIN preTl.transforms = {1, 3} /\ pre.last_transform = 2)
                 => CallSeq = <<3>>

C9_Witness ==
    /\ lastOp = "apply_album"
    /\ DOMAIN preTl.transforms = {1, 3}
    /\ pre.last_transform = 0
    /\ CallSeq = <<1, 3>>
    /\ rec.artist # pre.artist /\ rec.album # pre.album
    /\ rec.last_transform = 3

\* C10: after a pass on a record whose flag was false the flag is true iff
\* some call of the pass changed a field; only a matching transform changes a
\* field; a matching transform whose replacements equal the current values
\* does not raise the flag; A->B then B->A leaves the original artist with the
\* flag true and the watermark at the second id.
C10_DirtyFlag ==
    (IsListApply /\ ~pre.transformed)
        => /\ rec.transformed
                 <=> \E i \in DOMAIN calls : ~SameFields(calls[i].seen, After(i))
           /\ \A i \in DOMAIN calls :
                 LET t == preTl.transforms[calls[i].pk]
                     matched == /\ Applicable(t, pre)
                                /\ HasCond(t)
                                /\ CondsHold(t, calls[i].seen)
                 IN  /\ ~SameFields(calls[i].seen, After(i))
                           => (matched /\ WouldChange(t, calls[i].seen))
                     /\ (matched /\ ~WouldChange(t, calls[i].seen))
                           => After(i).transformed = calls[i].seen.transformed
           /\ ( /\ DOMAIN preTl.transforms = {1, 2}
                /\ ArtistRule(preTl.transforms[1], "A", "B")
                /\ ArtistRule(preTl.transforms[2], "B", "A")
                /\ pre.artist = "A" /\ pre.last_transform = 0 )
              => (rec.artist = "A" /\ rec.transformed /\ rec.last_transform = 2)

C10_Witness ==
    /\ lastOp = "apply_album"
    /\ ~pre.transformed
    /\ DOMAIN preTl.transforms = {1, 2}
    /\ ArtistRule(preTl.transforms[1], "A", "B")
    /\ ArtistRule(preTl.transforms[2], "B", "A")
    /\ pre.artist = "A" /\ pre.last_transform = 0
    /\ SameFields(rec, pre) /\ rec.transformed /\ rec.last_transform = 2

\* C11: TransformList.apply_track / apply_album on a record whose watermark is
\* >= max_id (empty list, watermark equal to or above max_id) calls no
\* transform and leaves the record exactly as it was: fields, watermark and
\* dirty flag, also when a stored transform matches its current values.
C11_UpToDateNoOp ==
    (IsListApply /\ pre.last_transform >= preTl.max_id)
        => (rec = pre /\ calls = <<>>)

C11_Witness ==
    /\ lastOp = "apply_track"
    /\ pre.last_transform > preTl.max_id
    /\ \E n \in DOMAIN preTl.transforms :
          /\ track_matched(preTl.transforms[n], pre)
          /\ WouldChange(preTl.transforms[n], pre)
    /\ rec = pre

\* the largest stored id of self, 0 when nothing is stored
LargestId(self) ==
    IF DOMAIN self.transforms = {}
    THEN 0
    ELSE CHOOSE n \in DOMAIN self.transforms : \A m \in DOMAIN self.transforms : m <= n

\* C12: after any sequence of add_transform calls max_id is the largest stored
\* id (0 when empty), every stored id is a positive integer, the accepted ids
\* are strictly increasing in call order and are exactly the stored ids, and
\* len() is the number of accepted calls.
C12_ListInvariant ==
    /\ tl.max_id = LargestId(tl)
    /\ \A n \in DOMAIN tl.transforms : n \in Nat /\ n > 0 /\ tl.transforms[n].pk = n
    /\ \A i, j \in DOMAIN accepted : i < j => accepted[i] < accepted[j]
    /\ {accepted[i] : i \in DOMAIN accepted} = DOMAIN tl.transforms
    /\ len(tl) = Len(accepted)

C12_Witness ==
    /\ lastOp = "add_transform" /\ prevOp = "add_transform"
    /\ accepted = <<1, 3>>
    /\ len(tl) = 2 /\ len(tl) < tl.max_id

(***************************************************************************)
(* SpecRecon: App.apply_transforms over the album and track tables.  The   *)
(* generator is followed statement by statement; rows and transforms are   *)
(* added between runs.                                                     *)
(***************************************************************************)
InitRecon ==
    /\ tl = TransformList
    /\ rec = Album("A", "X", "album", 0, 0, 0, 0)
    /\ pre = rec
    /\ preTl = tl
    /\ arg = NoArg
    /\ calls = <<>>
    /\ raised = FALSE
    /\ lastOp = "init"
    /\ prevOp = "init"
    /\ albums = <<>>
    /\ tracks = <<>>
    /\ run = Idle
    /\ accepted = <<>>
    /\ album_map = NoMap
    /\ ret = NoRet
    /\ preApp = NoApp
    /\ queries = <<>>
    /\ durable = db_commit(albums, tracks)

\* no run of apply_transforms is under way
Quiet == run.pc \in {"idle", "done"}

\* a row is added to the transform table and App.load_data reloads the list
R_AddTransform ==
    /\ Quiet
    /\ \E pk \in (tl.max_id + 1) .. MaxTid : \E t \in ReconPool(pk) :
          LET r == add_transform(tl, t)
          IN  /\ tl' = r.tl
              /\ accepted' = IF r.raised THEN accepted ELSE Append(accepted, t.pk)
    /\ run' = Idle
    /\ UNCHANGED <<rec, pre, preTl, arg, calls, raised, lastOp, prevOp, albums, tracks, durable, appVars>>

\* Album(...).insert(db, curs)
R_InsertAlbum ==
    /\ Quiet
    /\ Len(albums) + Len(tracks) < MaxRows
    /\ \E a \in {"A", "B"}, w \in 0 .. tl.max_id :
          LET r == Album_insert(albums, Album(a, "X", "album", 1, 120, w, 0))
          IN  /\ ~r.raised
              /\ albums' = r.table
    /\ run' = Idle
    /\ UNCHANGED <<engineVars, tracks, appVars>>
    /\ durable' = db_commit(albums', tracks')

\* Track(...).insert(db, curs, source, timestamp)
R_InsertTrack ==
    /\ Quiet
    /\ Len(albums) + Len(tracks) < MaxRows
    /\ \E a \in {"A", "B"}, w \in 0 .. tl.max_id :
          tracks' = Track_insert(tracks, Track(a, "X", "T", "None", 120, 0, w, 0), "xmms", Now)
    /\ run' = Idle
    /\ UNCHANGED <<engineVars, albums, appVars>>
    /\ durable' = db_commit(albums', tracks')

\* apply_transforms up to the album loop: the lagging albums are fetched
R_Start ==
    /\ Quiet
    /\ run' = apply_transforms_start(tl, albums, tracks)
    /\ UNCHANGED <<engineVars, albums, tracks, durable, appVars>>

\* one round of the album loop
R_Album ==
    /\ run.pc = "albums"
    /\ \E album \in run.todo :
          LET pass == TransformList_apply_album(tl, album)
              after == pass.rec
              upd == IF after.transformed
                     THEN Album_update(albums, after)
                     ELSE [table |-> albums, raised |-> FALSE]
              commit == after.transformed /\ ~upd.raised /\ apply_transforms_update_commit
          IN  /\ albums' = upd.table
              /\ durable' = commit_if(commit, upd.table, tracks, durable)
              /\ run' = [run EXCEPT
                            !.pc = IF upd.raised THEN "raised" ELSE "albums",
                            !.todo = run.todo \ {album},
                            !.max_album_id = IF album.pk > @ THEN album.pk ELSE @,
                            !.last = after,
                            !.commits = IF commit THEN @ + 1 ELSE @,
                            !.absorbed = IF after.transformed /\ ~upd.raised
                                         THEN @ \cup Applied(pass, after.last_transform)
                                         ELSE @,
                            !.twice = @ \/ Applied(pass, tl.max_id) \cap run.before # {}]
    /\ UNCHANGED <<engineVars, tracks, appVars>>

\* the album loop is over: the lagging tracks are fetched
R_FetchTracks ==
    /\ run.pc = "albums"
    /\ run.todo = {}
    /\ run' = [run EXCEPT !.pc = "tracks",
                          !.todo = Track_get_all_need_transform(tracks, tl.max_id)]
    /\ UNCHANGED <<engineVars, albums, tracks, durable, appVars>>

\* one round of the track loop
R_Track ==
    /\ run.pc = "tracks"
    /\ \E track \in run.todo :
          LET pass == TransformList_apply_track(tl, track)
              after == pass.rec
              upd == IF after.transformed
                     THEN Track_update(tracks, after)
                     ELSE [table |-> tracks, raised |-> FALSE]
              commit == after.transformed /\ ~upd.raised /\ apply_transforms_update_commit
          IN  /\ tracks' = upd.table
              /\ durable' = commit_if(commit, albums, upd.table, durable)
              /\ run' = [run EXCEPT
                            !.pc = IF upd.raised THEN "raised" ELSE "tracks",
                            !.todo = run.todo \ {track},
                            !.max_track_id = IF track.pk > @ THEN track.pk ELSE @,
                            !.last = after,
                            !.commits = IF commit THEN @ + 1 ELSE @,
                            !.absorbed = IF after.transformed /\ ~upd.raised
                                         THEN @ \cup Applied(pass, after.last_transform)
                                         ELSE @,
                            !.twice = @ \/ Applied(pass, tl.max_id) \cap run.before # {}]
    /\ UNCHANGED <<engineVars, albums, appVars>>

\* mass update of album lasttransform IDs
R_BulkAlbums ==
    /\ run.pc = "tracks"
    /\ run.todo = {}
    /\ albums' = IF run.max_album_id > -1
                 THEN bulk_update(albums, tl.max_id, run.max_album_id)
                 ELSE albums
    /\ run' = [run EXCEPT !.pc = "bulk_tracks"]
    /\ UNCHANGED <<engineVars, tracks, durable, appVars>>

\* mass update of track lasttransform IDs
R_BulkTracks ==
    /\ run.pc = "bulk_tracks"
    /\ tracks' = IF run.max_track_id > -1
                 THEN bulk_update(tracks, tl.max_id, run.max_track_id)
                 ELSE tracks
    /\ run' = [run EXCEPT !.pc = "commit"]
    /\ UNCHANGED <<engineVars, albums, durable, appVars>>

\* self.db.commit(): the run has completed
R_Commit ==
    /\ run.pc = "commit"
    /\ run' = [run EXCEPT !.pc = "done", !.commits = @ + 1]
    /\ durable' = db_commit(albums, tracks)
    /\ UNCHANGED <<engineVars, albums, tracks, appVars>>

NextRecon ==
    \/ R_AddTransform
    \/ R_InsertAlbum
    \/ R_InsertTrack
    \/ R_Start
    \/ R_Album
    \/ R_FetchTracks
    \/ R_Track
    \/ R_BulkAlbums
    \/ R_BulkTracks
    \/ R_Commit

SpecRecon == InitRecon /\ [][NextRecon]_vars

(***************************************************************************)
(* Properties of a reconciliation run (SpecRecon)                          *)
(***************************************************************************)
\* the rows of table0 that lagged max_id stand at max_id in table
CaughtUp(table0, table) ==
    \A i \in DOMAIN table0 :
        table0[i].lasttransform < tl.max_id
            => (i \in DOMAIN table /\ table[i].lasttransform = tl.max_id)

\* C4: when a run of App.apply_transforms has completed, every album and
\* every track that had lasttransform < max_id when the run started has
\* lasttransform = max_id in the store, matched or not, stalled or not.
C4_AllCaughtUp ==
    run.pc = "done"
        => (CaughtUp(run.albums0, albums) /\ CaughtUp(run.tracks0, tracks))

C4_Witness ==
    /\ run.pc = "done"
    /\ \E i \in DOMAIN run.albums0 :
          LET album == Album_from_database_row(i, run.albums0[i])
              after == TransformList_apply_album(tl, album).rec
          IN  /\ album.last_transform < tl.max_id
              /\ after.last_transform < tl.max_id
              /\ ~after.transformed
              /\ albums[i].lasttransform = tl.max_id
    /\ \E i \in DOMAIN run.tracks0 :
          LET track == Track_from_database_row(i, run.tracks0[i])
              after == TransformList_apply_track(tl, track).rec
          IN  /\ track.last_transform < tl.max_id
              /\ ~after.transformed
              /\ tracks[i].lasttransform = tl.max_id

\* C13: from the start of a run of App.apply_transforms on, every album and
\* every track that stood at lasttransform = max_id when the run started keeps
\* its whole row (artist/album/title and lasttransform included), also when a
\* stored transform matches it and other rows are transformed in the run.
C13_CurrentUntouched ==
    run.pc # "idle"
        => /\ \A i \in DOMAIN run.albums0 :
                 run.albums0[i].lasttransform = tl.max_id => albums[i] = run.albums0[i]
           /\ \A i \in DOMAIN run.tracks0 :
                 run.tracks0[i].lasttransform = tl.max_id => tracks[i] = run.tracks0[i]

C13_Witness ==
    /\ run.pc = "done"
    /\ \E i, j \in DOMAIN run.tracks0 :
          /\ i # j
          /\ run.tracks0[i].lasttransform = tl.max_id
          /\ \E n \in DOMAIN tl.transforms :
                LET track == Track_from_database_row(i, run.tracks0[i])
                IN  /\ track_matched(tl.transforms[n], track)
                    /\ WouldChange(tl.transforms[n], track)
          /\ tracks[i] = run.tracks0[i]
          /\ tracks[j].artist # run.tracks0[j].artist

\* C14: when a run has completed, every album and track that lagged max_id at
\* its start holds the artist/album/title that one TransformList.apply_album /
\* apply_track on its stored pre-state yields, and a record that pass leaves
\* clean holds the fields it had.
C14_BulkAgreesWithPass ==
    run.pc = "done"
        => /\ \A i \in DOMAIN run.albums0 :
                 LET row0 == run.albums0[i]
                     after == TransformList_apply_album(tl, Album_from_database_row(i, row0)).rec
                 IN  row0.lasttransform < tl.max_id
                         => /\ albums[i].alartist = after.artist
                            /\ albums[i].alalbum = after.album
                            /\ ~after.transformed
                                  => /\ albums[i].alartist = row0.alartist
                                     /\ albums[i].alalbum = row0.alalbum
           /\ \A i \in DOMAIN run.tracks0 :
                 LET row0 == run.tracks0[i]
                     after == TransformList_apply_track(tl, Track_from_database_row(i, row0)).rec
                 IN  row0.lasttransform < tl.max_id
                         => /\ tracks[i].artist = after.artist
                            /\ tracks[i].album = after.album
                            /\ tracks[i].title = after.title
                            /\ ~after.transformed
                                  => /\ tracks[i].artist = row0.artist
                                     /\ tracks[i].album = row0.album
                                     /\ tracks[i].title = row0.title

C14_Witness ==
    /\ run.pc = "done"
    /\ \E i \in DOMAIN run.albums0 :
          LET row0 == run.albums0[i]
              after == TransformList_apply_album(tl, Album_from_database_row(i, row0)).rec
          IN  /\ row0.lasttransform < tl.max_id
              /\ after.transformed
              /\ after.artist # row0.alartist
              /\ albums[i].alartist = after.artist
    /\ \E i \in DOMAIN run.tracks0 :
          LET row0 == run.tracks0[i]
              after == TransformList_apply_track(tl, Track_from_database_row(i, row0)).rec
          IN  /\ row0.lasttransform < tl.max_id
              /\ ~after.transformed
              /\ tracks[i].artist = row0.artist

(***************************************************************************)
(* SpecApp: one App instance resolving albums and logging tracks.  Albums  *)
(* and transforms are added to the database between its operations.        *)
(***************************************************************************)
InitApp ==
    /\ tl = TransformList
    /\ rec = Track("A", "X", "T", "None", 120, 0, 0, 0)
    /\ pre = rec
    /\ preTl = tl
    /\ arg = NoArg
    /\ calls = <<>>
    /\ raised = FALSE
    /\ lastOp = "init"
    /\ prevOp = "init"
    /\ albums = <<>>
    /\ tracks = <<>>
    /\ run = Idle
    /\ accepted = <<>>
    /\ album_map = NoMap
    /\ ret = NoRet
    /\ preApp = NoApp
    /\ queries = <<>>
    /\ durable = db_commit(albums, tracks)

\* the store and the cache as an App operation finds them
AppNow == [albums |-> albums, tracks |-> tracks, album_map |-> album_map]

\* a row is added to the transform table and App.load_data reloads the list
A_LoadData ==
    /\ tl.max_id < MaxTid
    /\ \E t \in AppPool(tl.max_id + 1) :
          LET r == add_transform(tl, t)
          IN  /\ tl' = r.tl
              /\ accepted' = IF r.raised THEN accepted ELSE Append(accepted, t.pk)
    /\ UNCHANGED <<rec, pre, preTl, arg, calls, raised, lastOp, prevOp, storeVars, appVars>>

\* Album(...).insert(db, curs): an album row enters the store
A_InsertAlbum ==
    /\ Len(albums) + Len(tracks) < MaxRows
    /\ \E a \in {"A", "B", "Various"} :
          LET r == Album_insert(albums, Album(a, "X", "album", 1, 120, 0, 0))
          IN  /\ ~r.raised
              /\ albums' = r.table
    /\ UNCHANGED <<engineVars, tracks, run, appVars>>
    /\ durable' = db_commit(albums', tracks')

\* app.set_album_id(track)
A_SetAlbumId ==
    /\ \E track \in NewTracks({"A", "B"}, {"X"}, {"T"}, {0}) :
          LET r == App_set_album_id(album_map, albums, track)
          IN  /\ pre' = track
              /\ rec' = r.track
              /\ album_map' = r.album_map
              /\ ret' = r.ret
              /\ queries' = r.queries
    /\ preApp' = AppNow
    /\ preTl' = tl
    /\ arg' = NoArg
    /\ calls' = <<>>
    /\ raised' = FALSE
    /\ lastOp' = "set_album_id"
    /\ prevOp' = lastOp
    /\ UNCHANGED <<tl, accepted, storeVars>>

\* app.log_track(track)
A_LogTrack ==
    /\ Len(albums) + Len(tracks) < MaxRows
    /\ \E track \in NewTracks({"A", "B"}, {"X"}, {"T"}, {0}) :
          LET r == App_log_track(tl, album_map, albums, tracks, track, "xmms", NoTimestamp, Now)
          IN  /\ pre' = track
              /\ rec' = r.track
              /\ album_map' = r.album_map
              /\ tracks' = r.tracks
              /\ ret' = r.track
              /\ queries' = r.queries
    /\ preApp' = AppNow
    /\ preTl' = tl
    /\ arg' = NoArg
    /\ calls' = <<>>
    /\ raised' = FALSE
    /\ lastOp' = "log_track"
    /\ prevOp' = lastOp
    /\ UNCHANGED <<tl, accepted, albums, run>>
    /\ durable' = db_commit(albums', tracks')

NextApp ==
    \/ A_LoadData
    \/ A_InsertAlbum
    \/ A_SetAlbumId
    \/ A_LogTrack

SpecApp == InitApp /\ [][NextApp]_vars

(***************************************************************************)
(* Properties of the album resolver and of log_track (SpecApp)             *)
(***************************************************************************)
\* table holds an album with this artist and album name
AlbumExists(table, artist, album) ==
    \E i \in DOMAIN table : table[i].alartist = artist /\ table[i].alalbum = album

\* id is the album the store offers for (artist, album): the album of that
\* artist, else the Various album of that name, else 0
ResolvesTo(table, artist, album, id) ==
    IF AlbumExists(table, artist, album)
    THEN id \in DOMAIN table /\ table[id].alartist = artist /\ table[id].alalbum = album
    ELSE IF AlbumExists(table, "Various", album)
         THEN /\ id \in DOMAIN table
              /\ table[id].alartist = "Various" /\ table[id].alalbum = album
         ELSE id = 0

\* the track the resolver of the last App operation was handed
ResolvedTrack ==
    IF lastOp = "log_track" THEN TransformList_apply_track(preTl, pre).rec ELSE pre

IsResolve == lastOp \in {"set_album_id", "log_track"}

\* C15 as stated: set_album_id returns, and stores in track.album_id, the id
\* of the album with the track's artist and album when the store holds one,
\* else the id of the Various album of that name, else 0.
C15_ResolvesFromStore ==
    lastOp = "set_album_id"
        => /\ rec.album_id = ret
           /\ ResolvesTo(preApp.albums, pre.artist, pre.album, ret)

\* C15 amended: as stated when the track's key is not in album_map; when it
\* is, the cached id is returned and stored, whatever the store holds.
C15_ResolvesOnMiss ==
    lastOp = "set_album_id"
        => /\ rec.album_id = ret
           /\ rec = [pre EXCEPT !.album_id = ret]
           /\ IF albumkey(pre) \in DOMAIN preApp.album_map
              THEN ret = preApp.album_map[albumkey(pre)]
              ELSE ResolvesTo(preApp.albums, pre.artist, pre.album, ret)

C15_Witness ==
    /\ lastOp = "set_album_id"
    /\ albumkey(pre) \notin DOMAIN preApp.album_map
    /\ \E i, j \in DOMAIN preApp.albums :
          /\ i < j
          /\ preApp.albums[i].alartist = "Various" /\ preApp.albums[i].alalbum = pre.album
          /\ preApp.albums[j].alartist = pre.artist /\ preApp.albums[j].alalbum = pre.album
          /\ ret = j /\ rec.album_id = j

\* C16: once a key is in album_map its entry never changes; a call whose key
\* is cached returns the cached id (a cached 0 included) without any lookup,
\* whatever the store holds by then; every call leaves its result cached.
C16_CacheSticks ==
    IsResolve
        => LET key == albumkey(ResolvedTrack)
           IN  /\ \A k \in DOMAIN preApp.album_map :
                     k \in DOMAIN album_map /\ album_map[k] = preApp.album_map[k]
               /\ key \in DOMAIN preApp.album_map
                     => /\ rec.album_id = preApp.album_map[key]
                        /\ lastOp = "set_album_id" => ret = preApp.album_map[key]
                        /\ queries = <<>>
                        /\ album_map = preApp.album_map
               /\ key \in DOMAIN album_map /\ album_map[key] = rec.album_id

C16_Witness ==
    /\ lastOp = "set_album_id" /\ prevOp = "set_album_id"
    /\ albumkey(pre) \in DOMAIN preApp.album_map
    /\ AlbumExists(preApp.albums, pre.artist, pre.album)
    /\ ret = 0 /\ rec.album_id = 0
    /\ queries = <<>>

\* C17: log_track appends one row that carries the fields and the watermark
\* TransformList.apply_track leaves on the track and the album id the
\* resolver gives for the transformed artist/album; when the store holds no
\* album for the transformed artist/album the row has album_id 0, also when
\* it holds one for the artist the track came with.
C17_IngestionOrder ==
    lastOp = "log_track"
        => LET post == ResolvedTrack
               key == albumkey(post)
               row == tracks[Len(tracks)]
           IN  /\ tracks = Append(preApp.tracks, row)
               /\ row.artist = post.artist /\ row.album = post.album
               /\ row.title = post.title
               /\ row.lasttransform = post.last_transform
               /\ row.album_id = rec.album_id
               /\ rec.pk = Len(tracks)
               /\ IF key \in DOMAIN preApp.album_map
                  THEN row.album_id = preApp.album_map[key]
                  ELSE ResolvesTo(preApp.albums, post.artist, post.album, row.album_id)
               /\ ( /\ ~AlbumExists(preApp.albums, post.artist, post.album)
                    /\ ~AlbumExists(preApp.albums, "Various", post.album) )
                     => row.album_id = 0

C17_Witness ==
    /\ lastOp = "log_track"
    /\ pre.artist = "A" /\ rec.artist = "B"
    /\ preTl.max_id > 0 /\ tracks[Len(tracks)].lasttransform = preTl.max_id
    /\ AlbumExists(preApp.albums, "A", "X")
    /\ ~AlbumExists(preApp.albums, "B", "X")
    /\ tracks[Len(tracks)].artist = "B"
    /\ tracks[Len(tracks)].album_id = 0

(***************************************************************************)
(* SpecAlbum: App.add_album on a store that earlier runs of the album-add  *)
(* program (each its own App instance calling add_album) have filled, with *)
(* transforms added to the database between the runs.  The call that is    *)
(* observed is the last step of a behaviour.                               *)
(***************************************************************************)
\* the values add_album is called with
AddAlbumArgs ==
    [filenames : FileLists, album_type : {"album", "ep"}, force_update : BOOLEAN]

\* an earlier run of the album-add program: add_album, not observed
A_AlbumAddRun ==
    /\ lastOp # "add_album"
    /\ \E a \in AddAlbumArgs :
          LET r == App_add_album(tl, albums, a.filenames, a.album_type, a.force_update)
          IN  /\ Len(r.albums) <= MaxRows
              /\ albums' = r.albums
    /\ UNCHANGED <<engineVars, tracks, run, appVars>>
    /\ durable' = db_commit(albums', tracks')

\* a row is added to the transform table before the next run loads the list
A_LoadBeforeRun ==
    /\ lastOp # "add_album"
    /\ A_LoadData

\* app.add_album(filenames, album_type, force_update)
A_AddAlbum ==
    /\ lastOp # "add_album"
    /\ \E a \in AddAlbumArgs :
          LET r == App_add_album(tl, albums, a.filenames, a.album_type, a.force_update)
          IN  /\ Len(r.albums) <= MaxRows
              /\ albums' = r.albums
              /\ ret' = r.ret
              /\ raised' = r.raised
              /\ arg' = a
    /\ preApp' = AppNow
    /\ preTl' = tl
    /\ lastOp' = "add_album"
    /\ prevOp' = lastOp
    /\ UNCHANGED <<tl, rec, pre, calls, accepted, tracks, run, album_map, queries>>
    /\ durable' = db_commit(albums', tracks')

NextAlbum ==
    \/ A_LoadBeforeRun
    \/ A_AlbumAddRun
    \/ A_AddAlbum

SpecAlbum == InitApp /\ [][NextAlbum]_vars

(***************************************************************************)
(* Properties of App.add_album (SpecAlbum)                                 *)
(***************************************************************************)
\* every file loads and carries an artist and an album tag, and all files
\* carry the same album name
FilesValid(files) ==
    /\ Len(files) > 0
    /\ \A i \in DOMAIN files :
          files[i].loads /\ files[i].artist # "" /\ files[i].album # ""
    /\ \A i, j \in DOMAIN files : files[i].album = files[j].album

\* the album artist of a valid file list: the common artist, else Various
TagArtist(files) ==
    IF \A i \in DOMAIN files : files[i].artist = files[1].artist
    THEN files[1].artist
    ELSE "Various"

RECURSIVE TotalSeconds(_)
TotalSeconds(files) ==
    IF files = <<>> THEN 0 ELSE Head(files).seconds + TotalSeconds(Tail(files))

\* the file list passes every check add_album makes before it builds the Album
Acceptable(files) ==
    /\ FilesValid(files)
    /\ Len(TagArtist(files)) <= max_artist_album_length
    /\ Len(files[1].album) <= max_artist_album_length

\* the Album the files of the last add_album describe, before the transforms
Tagged ==
    Album(TagArtist(arg.filenames), arg.filenames[1].album, arg.album_type,
          Len(arg.filenames), TotalSeconds(arg.filenames), 0, 0)

\* the same Album after the rule set was applied to it
Transformed == TransformList_apply_album(preTl, Tagged).rec

\* the stored album the last add_album found for the transformed artist/album
ExistingId ==
    CHOOSE i \in DOMAIN preApp.albums :
        /\ preApp.albums[i].alartist = Transformed.artist
        /\ preApp.albums[i].alalbum = Transformed.album

FoundExisting ==
    /\ lastOp = "add_album"
    /\ Acceptable(arg.filenames)
    /\ AlbumExists(preApp.albums, Transformed.artist, Transformed.album)

\* the stored album holds the type and the totals of the new files, and
\* nothing else in the table has changed
RowUpdated ==
    albums = [preApp.albums EXCEPT ![ExistingId] =
                 [@ EXCEPT !.altype = arg.album_type,
                           !.totaltracks = Len(arg.filenames),
                           !.totalseconds = TotalSeconds(arg.filenames)]]

\* C18 as stated: add_album on files whose transformed artist/album is stored
\* returns False and leaves the album table as it was without force_update;
\* with force_update it returns True and the stored row takes the type,
\* totaltracks and totalseconds of the files, keeps its artist/album, and no
\* row is added.
C18_ExistingAlbum ==
    FoundExisting
        => IF arg.force_update
           THEN ~raised /\ ret = TRUE /\ RowUpdated
           ELSE ~raised /\ ret = FALSE /\ albums = preApp.albums

\* C18 amended: as stated, but with force_update the update happens and True
\* is returned when the files total a non-zero number of seconds; when they
\* total 0 seconds Album.update raises and the album table is as it was.
C18_ExistingAlbumNonZero ==
    FoundExisting
        => IF arg.force_update
           THEN IF TotalSeconds(arg.filenames) # 0
                THEN ~raised /\ ret = TRUE /\ RowUpdated
                ELSE raised /\ albums = preApp.albums
           ELSE ~raised /\ ret = FALSE /\ albums = preApp.albums

C18_Witness ==
    /\ FoundExisting
    /\ arg.force_update
    /\ ~raised /\ ret = TRUE
    /\ Len(albums) = Len(preApp.albums)
    /\ albums[ExistingId].altype # preApp.albums[ExistingId].altype
    /\ albums[ExistingId].totaltracks # preApp.albums[ExistingId].totaltracks
    /\ albums[ExistingId].totalseconds # preApp.albums[ExistingId].totalseconds
    /\ albums[ExistingId].alartist = preApp.albums[ExistingId].alartist

\* C19: add_album looks the album up under the artist/album the rule set
\* leaves on it: when the store holds that album nothing is inserted (it is
\* updated under force_update, else reported), also when the store holds no
\* album for the tags of the files; when it holds none, the row inserted
\* carries the transformed artist/album and the watermark of the pass.
C19_TransformBeforeLookup ==
    (lastOp = "add_album" /\ Acceptable(arg.filenames))
        => IF AlbumExists(preApp.albums, Transformed.artist, Transformed.album)
           THEN /\ Len(albums) = Len(preApp.albums)
                /\ raised => (arg.force_update /\ TotalSeconds(arg.filenames) = 0)
                /\ ~raised => ret = arg.force_update
           ELSE IF raised
                THEN TotalSeconds(arg.filenames) = 0 /\ albums = preApp.albums
                ELSE /\ ret = TRUE
                     /\ albums = Append(preApp.albums, AlbumRow(Transformed))
                     /\ albums[Len(albums)].alartist = Transformed.artist
                     /\ albums[Len(albums)].lasttransform = Transformed.last_transform

C19_Witness ==
    /\ lastOp = "add_album"
    /\ Acceptable(arg.filenames)
    /\ ~AlbumExists(preApp.albums, Tagged.artist, Tagged.album)
    /\ AlbumExists(preApp.albums, Transformed.artist, Transformed.album)
    /\ ~raised /\ ret = FALSE
    /\ albums = preApp.albums

\* C20: add_album returns False without raising and leaves the album table
\* as it was when the file list is empty, a file does not load, a file has
\* no artist or no album tag, two files differ in album name, or the album
\* artist or the album name is longer than 200 characters.
C20_Refusals ==
    (lastOp = "add_album" /\ ~Acceptable(arg.filenames))
        => (~raised /\ ret = FALSE /\ albums = preApp.albums)

C20_Witness ==
    /\ lastOp = "add_album"
    /\ FilesValid(arg.filenames)
    /\ Len(TagArtist(arg.filenames)) > max_artist_album_length
    /\ arg.force_update
    /\ preApp.albums # <<>>
    /\ ~raised /\ ret = FALSE
    /\ albums = preApp.albums

(***************************************************************************)
(* SpecTags: the album add_album derives from the tags of its files.  The  *)
(* file list is any list of up to MaxFiles files that load, carry an       *)
(* artist tag and share the album name "X".                                *)
(***************************************************************************)
\* the files of the lists: three artists, three lengths in seconds
TagFiles == {File(TRUE, a, "X", s) : a \in {"A", "B", "Various"}, s \in {0, 60, 120}}

\* the non-empty lists of at most MaxFiles such files
TagLists == UNION {[1..n -> TagFiles] : n \in 1..MaxFiles}

InitTags ==
    /\ tl = TransformList
    /\ rec = Album("", "", "album", 0, 0, 0, 0)
    /\ pre = rec
    /\ preTl = tl
    /\ arg \in [filenames : TagLists, album_type : {"album"}, force_update : {FALSE}]
    /\ calls = <<>>
    /\ raised = FALSE
    /\ lastOp = "init"
    /\ prevOp = "init"
    /\ albums = <<>>
    /\ tracks = <<>>
    /\ run = Idle
    /\ accepted = <<>>
    /\ album_map = NoMap
    /\ ret = NoRet
    /\ preApp = NoApp
    /\ queries = <<>>
    /\ durable = db_commit(albums, tracks)

\* add_album up to the Album object: the loop over the files and the constructor
G_BuildAlbum ==
    /\ lastOp = "init"
    /\ LET loaded == add_album_load(arg.filenames, 1, NoTags)
       IN  /\ ~loaded.failed
           /\ rec' = add_album_object(loaded, arg.album_type)
    /\ lastOp' = "add_album_object"
    /\ prevOp' = lastOp
    /\ UNCHANGED <<tl, pre, preTl, arg, calls, raised, accepted, storeVars, appVars>>

NextTags == G_BuildAlbum

SpecTags == InitTags /\ [][NextTags]_vars

\* C21: for a non-empty list of valid files sharing one album name, the
\* album add_album builds (before the transforms) has as artist the artist
\* of the files when they all carry the same one and "Various" as soon as a
\* file's artist differs from the first file's, whatever the order and the
\* number of the files; its totaltracks is the number of files and its
\* totalseconds the sum of their lengths.
C21_DerivedAlbum ==
    lastOp = "add_album_object"
        => LET files == arg.filenames
           IN  /\ FilesValid(files)
               /\ IF \A i \in DOMAIN files : files[i].artist = files[1].artist
                  THEN rec.artist = files[1].artist
                  ELSE rec.artist = "Various"
               /\ rec.album = files[1].album
               /\ rec.totaltracks = Len(files)
               /\ rec.totalseconds = TotalSeconds(files)
               /\ rec.last_transform = 0 /\ rec.pk = 0

C21_Witness ==
    /\ lastOp = "add_album_object"
    /\ Len(arg.filenames) = 3
    /\ arg.filenames[1].artist = "A"
    /\ arg.filenames[2].artist = "B"
    /\ arg.filenames[3].artist = "A"
    /\ rec.artist = "Various"
    /\ rec.totaltracks = 3
    /\ rec.totalseconds = 180

(***************************************************************************)
(* SpecAssoc: App.associate_albums on a store that earlier runs of the     *)
(* logging and album-add programs have filled.  The App instance that is   *)
(* observed may have resolved albums before, so its cache album_map need   *)
(* not be empty.  The call that is observed is the last step.              *)
(***************************************************************************)
\* the tracks logged and resolved in this specification
AssocTracks == NewTracks({"A", "B"}, {"X", ""}, {"T"}, {0})

\* an earlier run of the album-add program inserts an album
B_InsertAlbum ==
    /\ lastOp # "associate_albums"
    /\ Len(albums) < MaxRows
    /\ \E a \in {"A", "Various"} :
          LET r == Album_insert(albums, Album(a, "X", "album", 1, 120, 0, 0))
          IN  /\ ~r.raised
              /\ albums' = r.table
    /\ UNCHANGED <<engineVars, tracks, run, appVars>>
    /\ durable' = db_commit(albums', tracks')

\* an earlier run of the logging program, an App instance of its own
B_LogRun ==
    /\ lastOp # "associate_albums"
    /\ Len(tracks) < MaxRows
    /\ \E track \in AssocTracks :
          tracks' = App_log_track(tl, NoMap, albums, tracks, track, "xmms", NoTimestamp, Now).tracks
    /\ UNCHANGED <<engineVars, albums, run, appVars>>
    /\ durable' = db_commit(albums', tracks')

\* the observed App instance resolves a track: app.set_album_id(track)
B_Resolve ==
    /\ lastOp # "associate_albums"
    /\ \E track \in AssocTracks :
          album_map' = App_set_album_id(album_map, albums, track).album_map
    /\ UNCHANGED <<engineVars, storeVars, ret, preApp, queries>>

\* list(app.associate_albums())
B_Associate ==
    /\ lastOp # "associate_albums"
    /\ LET r == App_associate_albums(album_map, albums, tracks)
       IN  /\ tracks' = r.tracks
           /\ album_map' = r.album_map
           /\ ret' = r.not_found
    /\ preApp' = AppNow
    /\ lastOp' = "associate_albums"
    /\ prevOp' = lastOp
    /\ UNCHANGED <<tl, rec, pre, preTl, arg, calls, raised, accepted, albums, run, queries>>
    /\ durable' = db_commit(albums', tracks')

NextAssoc ==
    \/ B_InsertAlbum
    \/ B_LogRun
    \/ B_Resolve
    \/ B_Associate

SpecAssoc == InitApp /\ [][NextAssoc]_vars

\* the id the resolver gives for (artist, album): the cached id when the
\* instance holds one for the key, else what the album table offers
ResolverGives(map, table, artist, album, id) ==
    LET key == artist \o " / " \o album
    IN  IF key \in DOMAIN map THEN id = map[key] ELSE ResolvesTo(table, artist, album, id)

\* C22: after associate_albums was iterated to its end, every stored track
\* that had album_id = 0 and a non-empty album name has the album_id the
\* resolver gives for its (artist, album) (the matching album's id, or
\* still 0 when none matches); a track with an empty album name or with a
\* non-zero album_id is not modified, and no track's artist, album or title
\* changes.
C22_Associated ==
    lastOp = "associate_albums"
        => /\ Len(tracks) = Len(preApp.tracks)
           /\ albums = preApp.albums
           /\ \A i \in DOMAIN tracks :
                 LET old == preApp.tracks[i]
                 IN  IF old.album_id = 0 /\ old.album # ""
                     THEN /\ ResolverGives(preApp.album_map, preApp.albums,
                                           old.artist, old.album, tracks[i].album_id)
                          /\ tracks[i] = [old EXCEPT !.album_id = tracks[i].album_id]
                     ELSE tracks[i] = old

C22_Witness ==
    /\ lastOp = "associate_albums"
    /\ preApp.album_map = NoMap
    /\ \E i, j \in DOMAIN tracks :
          /\ preApp.tracks[i].album_id = 0 /\ preApp.tracks[i].album = "X"
          /\ tracks[i].album_id # 0
          /\ albums[tracks[i].album_id].alalbum = "X"
          /\ preApp.tracks[j].album = "" /\ tracks[j].album_id = 0

(***************************************************************************)
(* SpecStore: the persistence methods of Album and Track called on objects *)
(* of any content, with pk 0, the pk of a stored row or a pk no row has.   *)
(***************************************************************************)
\* the Album objects handed to insert and update
StoreAlbums ==
    {Album(a, "X", "album", n, s, 0, pk) :
        a \in {"A", "B"}, n \in {0, 1}, s \in {0, 120}, pk \in 0..MaxRows}

\* the Track objects handed to insert and update
StoreTracks ==
    {Track(a, "X", "T", "None", 120, 0, 0, pk) : a \in {"A", "B"}, pk \in 0..MaxRows}

\* album.insert(db, curs)
S_AlbumInsert ==
    /\ \E album \in {a \in StoreAlbums : a.pk = 0} :
          LET r == Album_insert(albums, album)
          IN  /\ Len(r.table) <= MaxRows
              /\ albums' = r.table
              /\ raised' = r.raised
              /\ arg' = album
    /\ preApp' = AppNow
    /\ lastOp' = "Album.insert"
    /\ prevOp' = lastOp
    /\ UNCHANGED <<tl, rec, pre, preTl, calls, accepted, tracks, run, album_map, ret, queries>>
    /\ durable' = db_commit(albums', tracks')

\* album.update(db, curs)
S_AlbumUpdate ==
    /\ \E album \in StoreAlbums :
          LET r == Album_update(albums, album)
          IN  /\ albums' = r.table
              /\ raised' = r.raised
              /\ arg' = album
    /\ preApp' = AppNow
    /\ lastOp' = "Album.update"
    /\ prevOp' = lastOp
    /\ UNCHANGED <<tl, rec, pre, preTl, calls, accepted, tracks, run, album_map, ret, queries>>
    /\ durable' = db_commit(albums', tracks')

\* track.insert(db, curs)
S_TrackInsert ==
    /\ Len(tracks) < MaxRows
    /\ \E track \in {t \in StoreTracks : t.pk = 0} :
          /\ tracks' = Track_insert(tracks, track, "xmms", Now)
          /\ arg' = track
    /\ raised' = FALSE
    /\ preApp' = AppNow
    /\ lastOp' = "Track.insert"
    /\ prevOp' = lastOp
    /\ UNCHANGED <<tl, rec, pre, preTl, calls, accepted, albums, run, album_map, ret, queries>>
    /\ durable' = db_commit(albums', tracks')

\* track.update(db, curs)
S_TrackUpdate ==
    /\ \E track \in StoreTracks :
          LET r == Track_update(tracks, track)
          IN  /\ tracks' = r.table
              /\ raised' = r.raised
              /\ arg' = track
    /\ preApp' = AppNow
    /\ lastOp' = "Track.update"
    /\ prevOp' = lastOp
    /\ UNCHANGED <<tl, rec, pre, preTl, calls, accepted, albums, run, album_map, ret, queries>>
    /\ durable' = db_commit(albums', tracks')

NextStore ==
    \/ S_AlbumInsert
    \/ S_AlbumUpdate
    \/ S_TrackInsert
    \/ S_TrackUpdate

SpecStore == InitApp /\ [][NextStore]_vars

\* the last call left both tables as it found them
StoreUntouched == albums = preApp.albums /\ tracks = preApp.tracks

\* C23: Album.insert and Album.update raise when totaltracks or
\* totalseconds is 0, Track.update and Album.update raise when the object's
\* pk is 0, and in each case no row is inserted or modified.
C23_GuardsRaise ==
    /\ ( /\ lastOp \in {"Album.insert", "Album.update"}
         /\ (arg.totaltracks = 0 \/ arg.totalseconds = 0) )
          => (raised /\ StoreUntouched)
    /\ (lastOp \in {"Track.update", "Album.update"} /\ arg.pk = 0)
          => (raised /\ StoreUntouched)

C23_Witness ==
    /\ lastOp = "Album.update"
    /\ arg.pk \in DOMAIN preApp.albums
    /\ arg.totaltracks # 0 /\ arg.totalseconds = 0
    /\ arg.artist # preApp.albums[arg.pk].alartist
    /\ ~AlbumExists(preApp.albums, arg.artist, arg.album)
    /\ raised
    /\ StoreUntouched
    /\ preApp.tracks # <<>>

(***************************************************************************)
(* SpecLog: App.log_filenames.  Lengths of files and instants are whole    *)
(* seconds.  Earlier runs of the logging program may have logged tracks;   *)
(* the call that is observed is the last step.                             *)
(***************************************************************************)
\* the files of the lists: files of 0..MaxSeconds seconds and one that does not load
LogFiles == {File(TRUE, "A", "X", s) : s \in 0..MaxSeconds} \cup {File(FALSE, "", "", 0)}

\* the lists of at most MaxFiles such files
LogLists == UNION {[1..n -> LogFiles] : n \in 0..MaxFiles}

\* the timestamp texts: none, one in the past, one in the future, one unreadable
LogStamps == {NoTimestamp, Stamp(TRUE, 50), Stamp(TRUE, 200), Stamp(FALSE, 0)}

\* an earlier run of the logging program: log_track on one track
L_EarlierLog ==
    /\ lastOp # "log_filenames"
    /\ Len(tracks) < MaxRows
    /\ tracks' = App_log_track(tl, NoMap, albums, tracks,
                               Track("B", "X", "T", "None", 120, 0, 0, 0),
                               "xmms", NoTimestamp, Now).tracks
    /\ UNCHANGED <<engineVars, albums, run, appVars>>
    /\ durable' = db_commit(albums', tracks')

\* app.log_filenames(filenames, timestamp=timestamp) with the clock at now
L_LogFilenames ==
    /\ lastOp # "log_filenames"
    /\ \E filenames \in LogLists, timestamp \in LogStamps, now \in {Now, Now + 1} :
          LET r == App_log_filenames(tl, album_map, albums, tracks, filenames, "xmms",
                                     timestamp, now)
          IN  /\ tracks' = r.tracks
              /\ album_map' = r.album_map
              /\ ret' = r.logged
              /\ raised' = r.raised
              /\ arg' = [filenames |-> filenames, timestamp |-> timestamp, now |-> now]
    /\ preApp' = AppNow
    /\ lastOp' = "log_filenames"
    /\ prevOp' = lastOp
    /\ UNCHANGED <<tl, rec, pre, preTl, calls, accepted, albums, run, queries>>
    /\ durable' = db_commit(albums', tracks')

NextLog ==
    \/ L_EarlierLog
    \/ L_LogFilenames

SpecLog == InitApp /\ [][NextLog]_vars

\* s_1 + ... + s_n for the first n files
RECURSIVE SecondsBefore(_, _)
SecondsBefore(files, n) ==
    IF n = 0 THEN 0 ELSE files[n].seconds + SecondsBefore(files, n - 1)

\* T0: the timestamp given, or now less the length of all files
LogStart ==
    IF arg.timestamp = NoTimestamp
    THEN arg.now - SecondsBefore(arg.filenames, Len(arg.filenames))
    ELSE arg.timestamp[1].at

\* the timestamp column of the row log_filenames wrote for file i
LoggedAt(i) == tracks[Len(preApp.tracks) + i].timestamp

\* log_filenames was called with two files or more and a timestamp it can read
ManyFiles ==
    /\ lastOp = "log_filenames"
    /\ Len(arg.filenames) >= 2
    /\ arg.timestamp = NoTimestamp \/ arg.timestamp[1].parses

\* C24: log_filenames with n >= 2 files of s_1..s_n seconds logs track i at
\* T0 + s_1 + ... + s_(i-1), T0 being the timestamp given, or now less
\* s_1 + ... + s_n when none is given; the timestamps do not decrease in
\* list order (they increase across a file of non-zero length), without a
\* timestamp every track starts at or before now, and a file that does not
\* load makes the call raise with the track table as it was.
C24_Timestamps ==
    ManyFiles
        => LET files == arg.filenames
               n == Len(files)
           IN  IF \A i \in 1..n : files[i].loads
               THEN /\ ~raised
                    /\ Len(tracks) = Len(preApp.tracks) + n
                    /\ SubSeq(tracks, 1, Len(preApp.tracks)) = preApp.tracks
                    /\ \A i \in 1..n :
                          /\ LoggedAt(i) = LogStart + SecondsBefore(files, i - 1)
                          /\ tracks[Len(preApp.tracks) + i].seconds = files[i].seconds
                          /\ arg.timestamp = NoTimestamp => LoggedAt(i) <= arg.now
                    /\ \A i \in 1..(n - 1) :
                          /\ LoggedAt(i) <= LoggedAt(i + 1)
                          /\ files[i].seconds > 0 => LoggedAt(i) < LoggedAt(i + 1)
               ELSE raised /\ tracks = preApp.tracks /\ durable.tracks = preApp.tracks

C24_Witness ==
    /\ ManyFiles
    /\ ~raised
    /\ arg.timestamp = NoTimestamp
    /\ Len(arg.filenames) = 3
    /\ preApp.tracks # <<>>
    /\ LoggedAt(1) = arg.now - 4
    /\ LoggedAt(2) = arg.now - 3
    /\ LoggedAt(3) = arg.now - 1

\* a file that does not load, after files that do, leaves the track table
C24_LoadFailureWitness ==
    /\ ManyFiles
    /\ raised
    /\ arg.filenames[1].loads
    /\ ~arg.filenames[Len(arg.filenames)].loads
    /\ preApp.tracks # <<>>
    /\ tracks = preApp.tracks

(***************************************************************************)
(* The watermark an album pass leaves (Spec)                               *)
(***************************************************************************)
\* the stored ids in (w, max_id] whose transform has no title condition or change
AlbumApplicableIds(self, w) ==
    {n \in Pending(self, w) : ~(self.transforms[n].cond_title \/ self.transforms[n].change_title)}

\* C25: after TransformList.apply_album on an album with watermark
\* w < max_id, the album's watermark is the largest stored id in (w, max_id]
\* whose transform is applicable to albums, or w when there is none; it is
\* below max_id exactly when the transform with id max_id is inapplicable.
C25_AlbumWatermark ==
    (lastOp = "apply_album" /\ pre.last_transform < preTl.max_id)
        => LET w == pre.last_transform
               ids == AlbumApplicableIds(preTl, w)
               last == preTl.transforms[preTl.max_id]
           IN  /\ preTl.max_id \in DOMAIN preTl.transforms
               /\ IF ids = {}
                  THEN rec.last_transform = w
                  ELSE /\ rec.last_transform \in ids
                       /\ \A n \in ids : n <= rec.last_transform
               /\ rec.last_transform < preTl.max_id
                     <=> (last.cond_title \/ last.change_title)

C25_Witness ==
    /\ lastOp = "apply_album"
    /\ pre.last_transform < preTl.max_id
    /\ pre.last_transform < rec.last_transform
    /\ rec.last_transform < preTl.max_id
    /\ Len(calls) = 2

(***************************************************************************)
(* The steps of a reconciliation run (SpecRecon).  run.last is the record  *)
(* of the latest loop round as the rule set left it.                       *)
(***************************************************************************)
\* the latest step of the run was a round of the album loop on a dirty album
SavedAlbum ==
    /\ run.pc = "albums"
    /\ run.last.pk # 0
    /\ run.last.transformed

\* the latest step of the run was a round of the track loop on a dirty track
SavedTrack ==
    /\ run.pc = "tracks"
    /\ run.last.pk # 0
    /\ run.last.kind = "track"
    /\ run.last.transformed

\* C26: the per-record persist step of a reconciliation writes, for a dirty
\* record, its mutated fields and its new watermark to the store at that
\* step (before the bulk watermark update), for tracks as well as albums.
C26_PersistsWatermark ==
    /\ SavedAlbum
          => /\ albums[run.last.pk].alartist = run.last.artist
             /\ albums[run.last.pk].alalbum = run.last.album
             /\ albums[run.last.pk].lasttransform = run.last.last_transform
    /\ SavedTrack
          => /\ tracks[run.last.pk].artist = run.last.artist
             /\ tracks[run.last.pk].album = run.last.album
             /\ tracks[run.last.pk].title = run.last.title
             /\ tracks[run.last.pk].lasttransform = run.last.last_transform

\* what the per-record step does write: albums as claimed; of a track the
\* fields, the lasttransform column being left to the bulk update
C26_AlbumsOnly ==
    /\ SavedAlbum
          => /\ albums[run.last.pk].alartist = run.last.artist
             /\ albums[run.last.pk].alalbum = run.last.album
             /\ albums[run.last.pk].lasttransform = run.last.last_transform
    /\ SavedTrack
          => /\ tracks[run.last.pk].artist = run.last.artist
             /\ tracks[run.last.pk].album = run.last.album
             /\ tracks[run.last.pk].title = run.last.title
             /\ tracks[run.last.pk].lasttransform = run.tracks0[run.last.pk].lasttransform

\* a run of apply_transforms is under way, its commit not yet reached, or
\* it has ended in an exception
Uncommitted == run.pc \in {"albums", "tracks", "bulk_tracks", "commit", "raised"}

\* C27: apply_transforms commits exactly once, after all per-record updates
\* and both bulk watermark updates: until then no commit has happened and
\* the committed tables are those the run started from, whatever the run
\* has written; at the end every write of the run is committed.
C27_CommitsOnce ==
    /\ Uncommitted
          => /\ run.commits = 0
             /\ durable = db_commit(run.albums0, run.tracks0)
    /\ run.pc = "done"
          => /\ run.commits = 1
             /\ durable = db_commit(albums, tracks)

C27_Witness ==
    /\ run.pc = "commit"
    /\ run.commits = 0
    /\ albums # <<>> /\ tracks # <<>>
    /\ albums[1].alartist # run.albums0[1].alartist
    /\ tracks[1].artist # run.tracks0[1].artist
    /\ albums[1].lasttransform = tl.max_id
    /\ tracks[1].lasttransform = tl.max_id
    /\ durable = db_commit(run.albums0, run.tracks0)

(***************************************************************************)
(* SpecResume: a reconciliation run that is interrupted before its commit  *)
(* and invoked again.  The interruption either ends the connection, and    *)
(* the database rolls the uncommitted writes back, or only ends the        *)
(* iteration (the consumer stops pulling lines, or catches an exception),  *)
(* and the writes stay in the open transaction of the same App instance.   *)
(***************************************************************************)
\* the run is interrupted at any step before its commit
X_Interrupt ==
    /\ run.pc \in {"albums", "tracks", "bulk_tracks", "commit"}
    /\ ~run.resumed
    /\ \E rollback \in BOOLEAN :
          /\ albums' = IF rollback THEN durable.albums ELSE albums
          /\ tracks' = IF rollback THEN durable.tracks ELSE tracks
          /\ run' = [pc |-> "interrupted", origin |-> run.origin,
                     absorbed |-> IF rollback THEN {} ELSE run.absorbed]
    /\ UNCHANGED <<engineVars, durable, appVars>>

\* apply_transforms is invoked again, with the rule set of the first run
X_Resume ==
    /\ run.pc = "interrupted"
    /\ run' = [apply_transforms_start(tl, albums, tracks) EXCEPT
                  !.resumed = TRUE, !.origin = run.origin, !.before = run.absorbed]
    /\ UNCHANGED <<engineVars, albums, tracks, durable, appVars>>

NextResume ==
    \/ R_AddTransform
    \/ R_InsertAlbum
    \/ R_InsertTrack
    \/ R_Start
    \/ R_Album
    \/ R_FetchTracks
    \/ R_Track
    \/ R_BulkAlbums
    \/ R_BulkTracks
    \/ R_Commit
    \/ X_Interrupt
    \/ X_Resume

SpecResume == InitRecon /\ [][NextResume]_vars

\* the lagging rows of a table
Lagging(self, table) == {i \in DOMAIN table : table[i].lasttransform < self.max_id}

\* the bulk update of one complete run: rows up to the largest lagging key
BulkMarked(self, table, rows) ==
    [i \in DOMAIN table |->
        IF \E j \in Lagging(self, table) : i <= j
        THEN [rows[i] EXCEPT !.lasttransform = self.max_id]
        ELSE rows[i]]

\* the album table one complete run leaves of table
ReconciledAlbums(self, table) ==
    BulkMarked(self, table,
        [i \in DOMAIN table |->
            LET after == TransformList_apply_album(self,
                             Album_from_database_row(i, table[i])).rec
            IN  IF after.transformed THEN AlbumRow(after) ELSE table[i]])

\* the track table one complete run leaves of table
ReconciledTracks(self, table) ==
    BulkMarked(self, table,
        [i \in DOMAIN table |->
            LET after == TransformList_apply_track(self,
                             Track_from_database_row(i, table[i])).rec
            IN  [table[i] EXCEPT !.artist = after.artist, !.album = after.album,
                                 !.title = after.title]])

\* a complete run that was not interrupted leaves the reconciled tables
UninterruptedRun ==
    (run.pc = "done" /\ ~run.resumed)
        => /\ albums = ReconciledAlbums(tl, run.albums0)
           /\ tracks = ReconciledTracks(tl, run.tracks0)

\* C28: when a run is interrupted at any step before its commit and
\* reconciliation is invoked again to completion with the same rule set, no
\* transform is applied a second time to a record that had absorbed it, and
\* the store is the one a single uninterrupted run produces.
C28_Resumable ==
    (run.pc = "done" /\ run.resumed)
        => /\ ~run.twice
           /\ albums = ReconciledAlbums(tl, run.origin.albums)
           /\ tracks = ReconciledTracks(tl, run.origin.tracks)

\* what holds of the resumed run: the album table is the one a single run
\* produces
C28_AlbumsResumable ==
    (run.pc = "done" /\ run.resumed) => albums = ReconciledAlbums(tl, run.origin.albums)

(***************************************************************************)
(* SpecConc: two reconciliation runs against one database, each an App     *)
(* instance with the rule set it loaded and a connection of its own.  tl   *)
(* is the transform table, run[i] the state of run i, durable the          *)
(* committed tables and albums/tracks the tables as the connection with    *)
(* uncommitted writes sees them.  A connection reads committed rows and    *)
(* its own writes; the track select reads the rows committed by then or,   *)
(* under repeatable read, those of the run's first select.  A statement    *)
(* that writes waits while the other connection has uncommitted writes.    *)
(***************************************************************************)
\* the transforms of the transform table in this specification, with id pk
ConcPool(pk) ==
    { Transform(pk, TRUE, FALSE, FALSE, TRUE, FALSE, FALSE, "A", "", "", "B", "", ""),
      Transform(pk, TRUE, FALSE, TRUE, FALSE, FALSE, TRUE, "A", "", "T", "", "", "U") }

\* an App instance not yet created
NoRun == [pc |-> "idle", wrote |-> FALSE, overlap |-> FALSE]

InitConc ==
    /\ tl = TransformList
    /\ rec = Album("A", "X", "album", 0, 0, 0, 0)
    /\ pre = rec
    /\ preTl = tl
    /\ arg = NoArg
    /\ calls = <<>>
    /\ raised = FALSE
    /\ lastOp = "init"
    /\ prevOp = "init"
    /\ albums = <<>>
    /\ tracks = <<>>
    /\ run = <<NoRun, NoRun>>
    /\ accepted = <<>>
    /\ album_map = NoMap
    /\ ret = NoRet
    /\ preApp = NoApp
    /\ queries = <<>>
    /\ durable = db_commit(albums, tracks)

\* the other run
Other(i) == 3 - i

\* run i is between its first select and its commit
Running(i) == run[i].pc \in {"albums", "tracks", "bulk_tracks", "commit"}

\* no App instance exists yet
NoneLoaded == \A i \in {1, 2} : run[i].pc = "idle"

\* a row is added to the transform table
C_AddTransform ==
    /\ \E i \in {1, 2} : run[i].pc = "idle"
    /\ tl.max_id < MaxTid
    /\ \E t \in ConcPool(tl.max_id + 1) : tl' = add_transform(tl, t).tl
    /\ UNCHANGED <<rec, pre, preTl, arg, calls, raised, lastOp, prevOp, accepted, storeVars, appVars>>

\* Album(...).insert(db, curs) before the runs
C_InsertAlbum ==
    /\ NoneLoaded
    /\ Len(albums) + Len(tracks) < MaxRows
    /\ LET r == Album_insert(albums, Album("A", "X", "album", 1, 120, 0, 0))
       IN  /\ ~r.raised
           /\ albums' = r.table
    /\ durable' = db_commit(albums', tracks)
    /\ UNCHANGED <<engineVars, tracks, run, appVars>>

\* Track(...).insert(db, curs, source, timestamp) before the runs
C_InsertTrack ==
    /\ NoneLoaded
    /\ Len(albums) + Len(tracks) < MaxRows
    /\ tracks' = Track_insert(tracks, Track("A", "X", "T", "None", 120, 0, 0, 0), "xmms", Now)
    /\ durable' = db_commit(albums, tracks')
    /\ UNCHANGED <<engineVars, albums, run, appVars>>

\* App(database): run i loads the transform table as it is now
C_Load(i) ==
    /\ run[i].pc = "idle"
    /\ run' = [run EXCEPT ![i] = [@ EXCEPT !.pc = "loaded"] @@ [self |-> tl]]
    /\ UNCHANGED <<engineVars, albums, tracks, durable, appVars>>

\* run i enters apply_transforms and fetches the lagging albums
C_Start(i) ==
    /\ run[i].pc = "loaded"
    /\ LET both == Running(Other(i))
       IN  /\ run' = [j \in {1, 2} |->
                        IF j = i
                        THEN [pc |-> "albums", self |-> run[i].self, wrote |-> FALSE,
                              overlap |-> both,
                              todo |-> Album_get_all_need_transform(durable.albums,
                                                                    run[i].self.max_id),
                              max_album_id |-> -1, max_track_id |-> -1,
                              snapshot |-> durable.tracks,
                              rank |-> IF run[Other(i)].pc \in {"idle", "loaded"}
                                       THEN 1 ELSE 2]
                        ELSE [run[j] EXCEPT !.overlap = @ \/ both]]
           /\ preApp' = IF run[Other(i)].pc \in {"idle", "loaded"}
                        THEN [albums |-> durable.albums, tracks |-> durable.tracks,
                              album_map |-> NoMap]
                        ELSE preApp
    /\ UNCHANGED <<engineVars, albums, tracks, durable, album_map, ret, queries>>

\* one round of the album loop of run i
C_Album(i) ==
    /\ run[i].pc = "albums"
    /\ \E album \in run[i].todo :
          LET after == TransformList_apply_album(run[i].self, album).rec
              upd == IF after.transformed
                     THEN Album_update(albums, after)
                     ELSE [table |-> albums, raised |-> FALSE]
          IN  /\ after.transformed => ~run[Other(i)].wrote
              /\ albums' = IF upd.raised THEN durable.albums ELSE upd.table
              /\ tracks' = IF upd.raised THEN durable.tracks ELSE tracks
              /\ run' = [run EXCEPT
                            ![i].pc = IF upd.raised THEN "raised" ELSE "albums",
                            ![i].todo = @ \ {album},
                            ![i].max_album_id = IF album.pk > @ THEN album.pk ELSE @,
                            ![i].wrote = (@ \/ after.transformed) /\ ~upd.raised]
    /\ UNCHANGED <<engineVars, durable, appVars>>

\* the album loop of run i is over: the lagging tracks are fetched
C_FetchTracks(i) ==
    /\ run[i].pc = "albums"
    /\ run[i].todo = {}
    /\ \E table \in {IF run[i].wrote THEN tracks ELSE durable.tracks, run[i].snapshot} :
          run' = [run EXCEPT
                    ![i].pc = "tracks",
                    ![i].todo = Track_get_all_need_transform(table, run[i].self.max_id)]
    /\ UNCHANGED <<engineVars, albums, tracks, durable, appVars>>

\* one round of the track loop of run i
C_Track(i) ==
    /\ run[i].pc = "tracks"
    /\ \E track \in run[i].todo :
          LET after == TransformList_apply_track(run[i].self, track).rec
              upd == IF after.transformed
                     THEN Track_update(tracks, after)
                     ELSE [table |-> tracks, raised |-> FALSE]
          IN  /\ after.transformed => ~run[Other(i)].wrote
              /\ tracks' = upd.table
              /\ run' = [run EXCEPT
                            ![i].todo = @ \ {track},
                            ![i].max_track_id = IF track.pk > @ THEN track.pk ELSE @,
                            ![i].wrote = @ \/ after.transformed]
    /\ UNCHANGED <<engineVars, albums, durable, appVars>>

\* mass update of album lasttransform IDs by run i
C_BulkAlbums(i) ==
    /\ run[i].pc = "tracks"
    /\ run[i].todo = {}
    /\ run[i].max_album_id > -1 => ~run[Other(i)].wrote
    /\ albums' = IF run[i].max_album_id > -1
                 THEN bulk_update(albums, run[i].self.max_id, run[i].max_album_id)
                 ELSE albums
    /\ run' = [run EXCEPT ![i].pc = "bulk_tracks",
                          ![i].wrote = @ \/ run[i].max_album_id > -1]
    /\ UNCHANGED <<engineVars, tracks, durable, appVars>>

\* mass update of track lasttransform IDs by run i
C_BulkTracks(i) ==
    /\ run[i].pc = "bulk_tracks"
    /\ run[i].max_track_id > -1 => ~run[Other(i)].wrote
    /\ tracks' = IF run[i].max_track_id > -1
                 THEN bulk_update(tracks, run[i].self.max_id, run[i].max_track_id)
                 ELSE tracks
    /\ run' = [run EXCEPT ![i].pc = "commit",
                          ![i].wrote = @ \/ run[i].max_track_id > -1]
    /\ UNCHANGED <<engineVars, albums, durable, appVars>>

\* variant: the run ends without its commit and the connection rolls back
C_Commit_rolls_back(i) ==
    /\ run[i].pc = "commit"
    /\ albums' = durable.albums
    /\ tracks' = durable.tracks
    /\ run' = [run EXCEPT ![i].pc = "done", ![i].wrote = FALSE]
    /\ UNCHANGED <<engineVars, durable, appVars>>

\* self.db.commit() of run i
C_Commit(i) ==
    /\ run[i].pc = "commit"
    /\ durable' = IF run[i].wrote THEN db_commit(albums, tracks) ELSE durable
    /\ run' = [run EXCEPT ![i].pc = "done", ![i].wrote = FALSE]
    /\ UNCHANGED <<engineVars, albums, tracks, appVars>>

NextConc ==
    \/ C_AddTransform
    \/ C_InsertAlbum
    \/ C_InsertTrack
    \/ \E i \in {1, 2} : C_Load(i)
    \/ \E i \in {1, 2} : C_Start(i)
    \/ \E i \in {1, 2} : C_Album(i)
    \/ \E i \in {1, 2} : C_FetchTracks(i)
    \/ \E i \in {1, 2} : C_Track(i)
    \/ \E i \in {1, 2} : C_BulkAlbums(i)
    \/ \E i \in {1, 2} : C_BulkTracks(i)
    \/ \E i \in {1, 2} : C_Commit(i)

SpecConc == InitConc /\ [][NextConc]_vars

\* both runs have committed
BothDone == run[1].pc = "done" /\ run[2].pc = "done"

\* the tables the run with rule set second leaves after the run with rule
\* set first, one after the other, from the tables before both
Serial(first, second) ==
    LET a1 == ReconciledAlbums(first, preApp.albums)
        t1 == ReconciledTracks(first, preApp.tracks)
    IN  db_commit(ReconciledAlbums(second, a1), ReconciledTracks(second, t1))

\* the committed tables are those of one of the two serial executions
Serializable ==
    \/ durable = Serial(run[1].self, run[2].self)
    \/ durable = Serial(run[2].self, run[1].self)

\* C29: two reconciliation runs against the same store are unsafe when they
\* execute concurrently: run one after the other they leave the tables of
\* the serial execution in their order, and only runs that overlapped leave
\* tables that no serial execution of the two produces.
C29_OnlyOverlapDiverges ==
    BothDone
        => /\ ~run[1].overlap
                 => durable = IF run[1].rank = 1
                              THEN Serial(run[1].self, run[2].self)
                              ELSE Serial(run[2].self, run[1].self)
           /\ ~Serializable => (run[1].overlap /\ run[2].overlap)

\* an interleaving whose final store no serial execution produces: an album
\* watermark set back below the value the other run had committed
C29_Witness ==
    /\ BothDone
    /\ run[1].overlap
    /\ ~Serializable
    /\ \E i \in DOMAIN durable.albums :
          /\ durable.albums[i].lasttransform = 1
          /\ Serial(run[1].self, run[2].self).albums[i].lasttransform = 2
          /\ Serial(run[2].self, run[1].self).albums[i].lasttransform = 2

(***************************************************************************)
(* SpecNoIndex: one App instance on a database whose album table was not   *)
(* created by App._initialize_db and lacks the unique index idx_total;     *)
(* App.__init__ connects without looking at the schema.  Another client    *)
(* writes album rows, the App resolves tracks and looks albums up.         *)
(***************************************************************************)
\* insert into album ... by another client, no unique index in the way
N_InsertRow ==
    /\ Len(albums) + Len(tracks) < MaxRows
    /\ \E a \in {"A", "B", "Various"} :
          albums' = Append(albums, AlbumRow(Album(a, "X", "album", 1, 120, 0, 0)))
    /\ durable' = db_commit(albums', tracks)
    /\ UNCHANGED <<engineVars, tracks, run, appVars>>

\* app.set_album_id(track); "limit 1" hands back any one of the matching rows
N_SetAlbumId ==
    /\ \E track \in NewTracks({"A", "B"}, {"X"}, {"T"}, {0}) :
          LET r == App_set_album_id(album_map, albums, track)
              specific == select_alid(albums, track.artist, track.album)
              various == select_alid(albums, "Various", track.album)
              rows == IF albumkey(track) \in DOMAIN album_map THEN {r.ret}
                      ELSE IF specific # {} THEN specific
                      ELSE IF various # {} THEN various
                      ELSE {r.ret}
          IN  \E id \in rows :
                /\ pre' = track
                /\ rec' = [track EXCEPT !.album_id = id]
                /\ album_map' = (albumkey(track) :> id) @@ album_map
                /\ ret' = id
                /\ queries' = r.queries
    /\ preApp' = AppNow
    /\ preTl' = tl
    /\ arg' = NoArg
    /\ calls' = <<>>
    /\ raised' = FALSE
    /\ lastOp' = "set_album_id"
    /\ prevOp' = lastOp
    /\ UNCHANGED <<tl, accepted, storeVars>>

\* Album.get_by_artist_album(curs, artist, album)
N_GetByArtistAlbum ==
    /\ \E artist \in {"A", "B"} :
          LET rows == Album_get_by_artist_album(albums, artist, "X")
          IN  /\ pre' = Track(artist, "X", "T", "None", 120, 0, 0, 0)
              /\ rec' = pre'
              /\ raised' = (Cardinality(rows) > 1)
              /\ ret' = IF Cardinality(rows) = 1 THEN CHOOSE i \in rows : TRUE ELSE 0
              /\ queries' = <<Query(artist, "X")>>
    /\ preApp' = AppNow
    /\ preTl' = tl
    /\ arg' = NoArg
    /\ calls' = <<>>
    /\ lastOp' = "get_by_artist_album"
    /\ prevOp' = lastOp
    /\ UNCHANGED <<tl, accepted, storeVars, album_map>>

NextNoIndex ==
    \/ N_InsertRow
    \/ N_SetAlbumId
    \/ N_GetByArtistAlbum

SpecNoIndex == InitApp /\ [][NextNoIndex]_vars

\* the last operation looked an (artist, album) pair up that several rows hold
SeveralCandidates ==
    \E i \in DOMAIN queries :
        Cardinality(select_alid(preApp.albums, queries[i].artist, queries[i].album)) > 1

\* C30: when an album lookup by (artist, album) yields more than one row,
\* set_album_id raises to its caller instead of returning one of the ids.
C30_ResolverRaises ==
    (lastOp = "set_album_id" /\ SeveralCandidates) => raised

\* Album.get_by_artist_album does raise on several rows
C30_LookupRaises ==
    (lastOp = "get_by_artist_album" /\ SeveralCandidates) => raised

\* Album.get_by_artist_album has met several rows
C30_LookupWitness ==
    lastOp = "get_by_artist_album" /\ SeveralCandidates /\ raised

(***************************************************************************)
(* The dirty flag across passes (Spec)                                     *)
(***************************************************************************)
\* some call of the last pass changed a field of the record
PassMutated == \E i \in DOMAIN calls : ~SameFields(calls[i].seen, After(i))

\* C31: the flag is reset before each pass: after apply_track / apply_album
\* on a record an earlier pass left dirty, the flag is true only if the new
\* pass itself changed a field.
C31_FlagReset ==
    (IsListApply /\ pre.transformed) => (rec.transformed => PassMutated)

(***************************************************************************)
(* SpecIngest: the store as the programs fill it from empty.  Rows enter   *)
(* through add_album and log_track only, each program run being an App     *)
(* instance with the transform table as it is then; transforms are added   *)
(* and reconciliation runs in between.                                     *)
(***************************************************************************)
\* the file lists handed to add_album in this specification
IngestFiles ==
    { <<File(TRUE, "A", "X", 120)>>, <<File(TRUE, "B", "X", 120)>>,
      <<File(TRUE, "A", "X", 120), File(TRUE, "B", "X", 120)>> }

\* a run of the album-add program: app.add_album(filenames, 'album', force)
I_AddAlbum ==
    /\ Quiet
    /\ \E filenames \in IngestFiles, force_update \in BOOLEAN :
          LET r == App_add_album(tl, albums, filenames, "album", force_update)
          IN  /\ Len(r.albums) + Len(tracks) <= MaxRows
              /\ albums' = r.albums
              /\ raised' = r.raised
    /\ preApp' = AppNow
    /\ preTl' = tl
    /\ lastOp' = "add_album"
    /\ run' = Idle
    /\ durable' = db_commit(albums', tracks)
    /\ UNCHANGED <<tl, rec, pre, arg, calls, prevOp, accepted, tracks, album_map, ret, queries>>

\* a run of the logging program: app.log_track(track) on a new App instance
I_LogTrack ==
    /\ Quiet
    /\ Len(albums) + Len(tracks) < MaxRows
    /\ \E track \in NewTracks({"A", "B"}, {"X"}, {"T"}, {0}) :
          tracks' = App_log_track(tl, NoMap, albums, tracks, track, "xmms",
                                  NoTimestamp, Now).tracks
    /\ preApp' = AppNow
    /\ preTl' = tl
    /\ raised' = FALSE
    /\ lastOp' = "log_track"
    /\ run' = Idle
    /\ durable' = db_commit(albums, tracks')
    /\ UNCHANGED <<tl, rec, pre, arg, calls, prevOp, accepted, albums, album_map, ret, queries>>

\* a run of the transform program enters apply_transforms
I_Start ==
    /\ Quiet
    /\ run' = apply_transforms_start(tl, albums, tracks)
    /\ preApp' = AppNow
    /\ preTl' = tl
    /\ raised' = FALSE
    /\ lastOp' = "apply_transforms"
    /\ UNCHANGED <<tl, rec, pre, arg, calls, prevOp, accepted, albums, tracks, durable, album_map, ret, queries>>

NextIngest ==
    \/ R_AddTransform
    \/ I_AddAlbum
    \/ I_LogTrack
    \/ I_Start
    \/ R_Album
    \/ R_FetchTracks
    \/ R_Track
    \/ R_BulkAlbums
    \/ R_BulkTracks
    \/ R_Commit

SpecIngest == InitRecon /\ [][NextIngest]_vars

\* every stored transform with an id above w is one Transform.apply_album skips
OnlyInapplicableAbove(self, w) ==
    /\ w < self.max_id
    /\ self.max_id \in DOMAIN self.transforms
    /\ \A n \in DOMAIN self.transforms : n > w => album_inapplicable(self.transforms[n])

\* the last operation was an add_album that inserted a row
AlbumInserted ==
    lastOp = "add_album" /\ ~raised /\ Len(albums) = Len(preApp.albums) + 1

\* add_album inserts at the id of the last transform applicable to albums
IngestedBehind ==
    IF AlbumInserted /\ preTl.max_id \in DOMAIN preTl.transforms
    THEN album_inapplicable(preTl.transforms[preTl.max_id])
            => albums[Len(albums)].lasttransform < preTl.max_id
    ELSE TRUE

\* a completed run caught the albums up whose pending transforms all skip albums
CaughtUpUnchanged ==
    run.pc = "done"
        => \A i \in DOMAIN run.albums0 :
              OnlyInapplicableAbove(tl, run.albums0[i].lasttransform)
                 => /\ Album_from_database_row(i, run.albums0[i])
                          \in Album_get_all_need_transform(run.albums0, tl.max_id)
                    /\ albums[i] = [run.albums0[i] EXCEPT !.lasttransform = tl.max_id]

\* outside a reconciliation run no stored watermark changes
NoRunNoAdvance ==
    (Quiet /\ run' = Idle)
        => /\ \A i \in DOMAIN albums : albums'[i].lasttransform = albums[i].lasttransform
           /\ \A i \in DOMAIN tracks : tracks'[i].lasttransform = tracks[i].lasttransform

\* C32: an album inserted by add_album while the newest transform skips
\* albums is stored with lasttransform < max_id; no ingestion and no added
\* transform moves a stored watermark; the next completed reconciliation
\* selects the album, leaves its fields as they are and sets its
\* lasttransform to max_id.
C32_Divergence ==
    /\ [](IngestedBehind /\ CaughtUpUnchanged)
    /\ [][NoRunNoAdvance]_vars

\* an album ingested at watermark 1 under transforms 1 and 2, of which 2
\* skips albums, was caught up to 2 by a completed run
C32_Witness ==
    /\ run.pc = "done"
    /\ tl.max_id = 2
    /\ \E i \in DOMAIN run.albums0 :
          /\ run.albums0[i].lasttransform = 1
          /\ OnlyInapplicableAbove(tl, 1)
          /\ albums[i].lasttransform = 2
          /\ albums[i].alartist = run.albums0[i].alartist

(***************************************************************************)
(* The frame of rule application (Spec)                                    *)
(***************************************************************************)
\* the attributes of a record that no transform refers to
OtherAttributes(r) ==
    IF r.kind = "track"
    THEN <<r.kind, r.pk, r.album_id, r.tracknum, r.seconds>>
    ELSE <<r.kind, r.pk, r.album_type, r.totaltracks, r.totalseconds>>

\* what one call of transform t made of record b: a field differs only if
\* its change flag is set, and then holds the replacement
ChangedByFlag(t, b, a) ==
    /\ a.artist # b.artist => (t.change_artist /\ a.artist = t.to_artist)
    /\ a.album # b.album => (t.change_album /\ a.album = t.to_album)
    /\ b.kind = "track" => (a.title # b.title => (t.change_title /\ a.title = t.to_title))
    /\ OtherAttributes(a) = OtherAttributes(b)
    /\ DOMAIN a = DOMAIN b

\* C33: applying a TransformList, and each Transform it calls, does not
\* raise, leaves the list (stored transforms, max_id) as it was, changes
\* only record fields whose change flag is set, and leaves the record's
\* other attributes alone.
C33_Frame ==
    IsListApply
        => /\ ~raised
           /\ tl = preTl
           /\ OtherAttributes(rec) = OtherAttributes(pre)
           /\ \A i \in DOMAIN calls :
                 ChangedByFlag(preTl.transforms[calls[i].pk], calls[i].seen, After(i))

\* a pass of two calls, the first of which changed the artist only
C33_Witness ==
    /\ lastOp = "apply_track"
    /\ Len(calls) = 2
    /\ After(1).artist # calls[1].seen.artist
    /\ After(1).album = calls[1].seen.album
    /\ tl = preTl

(***************************************************************************)
(* Monotone watermarks (SpecConc)                                          *)
(***************************************************************************)
\* no record a run has fetched comes out of its pass with a lower watermark
PassKeepsWatermark ==
    \A r \in {1, 2} :
        run[r].pc \in {"albums", "tracks"}
            => \A record \in run[r].todo :
                  LET after == IF record.kind = "album"
                               THEN TransformList_apply_album(run[r].self, record).rec
                               ELSE TransformList_apply_track(run[r].self, record).rec
                  IN  after.last_transform >= record.last_transform

\* run r commits in this step
Commits(r) == run[r].pc = "commit" /\ run'[r].pc = "done"

\* the committed row now holds a lower watermark than before the step
Lowered(before, after) == after.lasttransform < before.lasttransform

\* the step is the commit of a run whose rule set ends below the watermark
\* the row had, and the row now holds that max_id
StaleCommit(before, after) ==
    \E r \in {1, 2} :
        /\ Commits(r)
        /\ run[r].self.max_id < before.lasttransform
        /\ after.lasttransform = run[r].self.max_id

\* C34, as stated: no operation ever lowers a stored watermark.
C34_NeverLowered ==
    [][ /\ \A i \in DOMAIN durable.albums :
              ~Lowered(durable.albums[i], durable'.albums[i])
        /\ \A i \in DOMAIN durable.tracks :
              ~Lowered(durable.tracks[i], durable'.tracks[i]) ]_vars

\* committed watermarks are lowered by stale commits only
LoweredOnlyWhenStale ==
    /\ \A i \in DOMAIN durable.albums :
          Lowered(durable.albums[i], durable'.albums[i])
             => StaleCommit(durable.albums[i], durable'.albums[i])
    /\ \A i \in DOMAIN durable.tracks :
          Lowered(durable.tracks[i], durable'.tracks[i])
             => StaleCommit(durable.tracks[i], durable'.tracks[i])

\* C34, amended: a pass of the list never lowers the watermark of the record
\* it is given, and the commit of a run lowers no committed watermark that
\* is at most the max_id of its rule set; a committed watermark above that
\* max_id is lowered only to that max_id, by the run's bulk update.
C34_MonotoneUnlessStale ==
    /\ []PassKeepsWatermark
    /\ [][LoweredOnlyWhenStale]_vars

\* run 1 (max_id 2) and run 2 (max_id 1) have committed, and the album that
\* both fetched is left at 1: run 2 committed over the 2 of run 1
C34_Witness ==
    /\ BothDone
    /\ run[1].self.max_id = 2
    /\ run[2].self.max_id = 1
    /\ Len(durable.albums) = 1
    /\ preApp.albums[1].lasttransform = 0
    /\ durable.albums[1].lasttransform = 1

(***************************************************************************)
(* The values a watermark takes (SpecIngest)                               *)
(***************************************************************************)
\* w is 0 or the id of a stored transform, and not above max_id
StoredId(self, w) == (w = 0 \/ w \in DOMAIN self.transforms) /\ w <= self.max_id

\* every row of the table holds such a watermark
WatermarksStored(self, table) ==
    \A i \in DOMAIN table : StoredId(self, table[i].lasttransform)

\* C35: in every state reached from the empty store through added
\* transforms, log_track, add_album and reconciliation runs, the watermark
\* of each album and track, committed or written in the run under way, is 0
\* or the id of a stored transform and is not above max_id.
C35_WatermarkValues ==
    /\ WatermarksStored(tl, albums)
    /\ WatermarksStored(tl, tracks)
    /\ WatermarksStored(tl, durable.albums)
    /\ WatermarksStored(tl, durable.tracks)

\* an album behind max_id at the id of a stored transform, next to a track
\* at max_id
C35_Witness ==
    /\ \E i \in DOMAIN albums :
          /\ albums[i].lasttransform \in DOMAIN tl.transforms
          /\ albums[i].lasttransform < tl.max_id
    /\ \E j \in DOMAIN tracks : tracks[j].lasttransform = tl.max_id

(***************************************************************************)
(* SpecKey: one App instance resolving tracks whose artist or album name   *)
(* contains " / ".  The album table is filled before the first call and    *)
(* does not change afterwards.                                             *)
(***************************************************************************)
\* the (artist, album) pairs of this specification
KeyPairs == { <<"A", "X">>, <<"A / X", "X">>, <<"A", "X / X">> }

\* Album(...).insert(db, curs) before the App resolves its first track
K_InsertAlbum ==
    /\ album_map = NoMap
    /\ Len(albums) + Len(tracks) < MaxRows
    /\ \E p \in KeyPairs :
          LET r == Album_insert(albums, Album(p[1], p[2], "album", 1, 120, 0, 0))
          IN  /\ ~r.raised
              /\ albums' = r.table
    /\ durable' = db_commit(albums', tracks)
    /\ UNCHANGED <<engineVars, tracks, run, appVars>>

\* app.set_album_id(track)
K_SetAlbumId ==
    /\ \E p \in KeyPairs :
          LET track == Track(p[1], p[2], "T", "None", 0, 0, 0, 0)
              r == App_set_album_id(album_map, albums, track)
          IN  /\ pre' = track
              /\ rec' = r.track
              /\ album_map' = r.album_map
              /\ ret' = r.ret
              /\ queries' = r.queries
    /\ preApp' = AppNow
    /\ preTl' = tl
    /\ arg' = NoArg
    /\ calls' = <<>>
    /\ raised' = FALSE
    /\ lastOp' = "set_album_id"
    /\ prevOp' = lastOp
    /\ UNCHANGED <<tl, accepted, storeVars>>

NextKey ==
    \/ K_InsertAlbum
    \/ K_SetAlbumId

SpecKey == InitApp /\ [][NextKey]_vars

\* C36: while the album table does not change, every set_album_id call
\* returns what a lookup without the cache returns for the track's
\* (artist, album): no two pairs share a cache entry.
C36_CacheTransparent ==
    lastOp = "set_album_id" => ret = App_set_album_id(NoMap, albums, pre).ret

(***************************************************************************)
(* SpecTwice: SpecRecon, and apply_transforms called a second time right   *)
(* after a completed run, with the same rule set and nothing written in    *)
(* between.  The second run keeps, as `first`, the committed tables the    *)
(* first run started from.                                                 *)
(***************************************************************************)
\* apply_transforms is called again after a completed run
Y_RunAgain ==
    /\ run.pc = "done"
    /\ "first" \notin DOMAIN run
    /\ run' = apply_transforms_start(tl, albums, tracks) @@ [first |-> run.origin]
    /\ UNCHANGED <<engineVars, albums, tracks, durable, appVars>>

NextTwice ==
    \/ R_AddTransform
    \/ R_InsertAlbum
    \/ R_InsertTrack
    \/ R_Start
    \/ R_Album
    \/ R_FetchTracks
    \/ R_Track
    \/ R_BulkAlbums
    \/ R_BulkTracks
    \/ R_Commit
    \/ Y_RunAgain

SpecTwice == InitRecon /\ [][NextTwice]_vars

\* the run under way, or just completed, is the second of two
SecondRun == "first" \in DOMAIN run

\* C37: a second apply_transforms right after a completed run, with the
\* same rule set, selects no album and no track, makes no per-record and no
\* bulk update (and so yields no line), and leaves the store as it was.
C37_SecondRunIdle ==
    SecondRun
        => /\ run.todo = {}
           /\ run.last = NoArg
           /\ run.max_album_id = -1
           /\ run.max_track_id = -1
           /\ albums = run.albums0
           /\ tracks = run.tracks0
           /\ durable = run.origin

\* the second run has completed after a first run that found lagging rows
\* of both kinds
C37_Witness ==
    /\ SecondRun
    /\ run.pc = "done"
    /\ \E i \in DOMAIN run.first.albums : run.first.albums[i].lasttransform < tl.max_id
    /\ \E i \in DOMAIN run.first.tracks : run.first.tracks[i].lasttransform < tl.max_id

(***************************************************************************)
(* SpecGen: apply_transforms as the generator it is.  The body runs only   *)
(* while the consumer pulls a line and is suspended at each yield: three   *)
(* per updated record, one before each bulk update.  The consumer may stop *)
(* at any yield, or before the first pull, and close the App.              *)
(***************************************************************************)
\* the positions at which the generator is suspended
Suspended == {"new", "album_lines", "track_lines", "bulk_albums_line", "bulk_tracks_line"}

\* app.apply_transforms(): the generator object is created, nothing runs
G_Create ==
    /\ Quiet
    /\ run' = [pc |-> "new", todo |-> {}, max_album_id |-> -1, max_track_id |-> -1,
               lines |-> 0, origin |-> durable]
    /\ UNCHANGED <<engineVars, albums, tracks, durable, appVars>>

\* the consumer pulls the next line: the body resumes after its yield
G_Pull ==
    /\ run.pc \in Suspended
    /\ run' = IF run.pc = "new"
              THEN [run EXCEPT !.pc = "albums",
                               !.todo = Album_get_all_need_transform(albums, tl.max_id)]
              ELSE IF run.pc \in {"album_lines", "track_lines"}
              THEN IF run.lines > 1
                   THEN [run EXCEPT !.lines = @ - 1]
                   ELSE [run EXCEPT !.lines = 0,
                                    !.pc = IF run.pc = "album_lines" THEN "albums"
                                           ELSE "tracks"]
              ELSE IF run.pc = "bulk_albums_line"
              THEN [run EXCEPT !.pc = "bulk_albums"]
              ELSE [run EXCEPT !.pc = "bulk_tracks"]
    /\ UNCHANGED <<engineVars, albums, tracks, durable, appVars>>

\* one round of the album loop, up to its first yield if the album changed
G_Album ==
    /\ run.pc = "albums"
    /\ \E album \in run.todo :
          LET after == TransformList_apply_album(tl, album).rec
              upd == IF after.transformed
                     THEN Album_update(albums, after)
                     ELSE [table |-> albums, raised |-> FALSE]
              commit == after.transformed /\ ~upd.raised /\ apply_transforms_update_commit
          IN  /\ albums' = upd.table
              /\ durable' = commit_if(commit, upd.table, tracks, durable)
              /\ run' = [run EXCEPT
                            !.pc = IF upd.raised THEN "raised"
                                   ELSE IF after.transformed THEN "album_lines"
                                   ELSE "albums",
                            !.lines = IF after.transformed /\ ~upd.raised THEN 3 ELSE 0,
                            !.todo = run.todo \ {album},
                            !.max_album_id = IF album.pk > @ THEN album.pk ELSE @]
    /\ UNCHANGED <<engineVars, tracks, appVars>>

\* the album loop is over: the lagging tracks are fetched
G_FetchTracks ==
    /\ run.pc = "albums"
    /\ run.todo = {}
    /\ run' = [run EXCEPT !.pc = "tracks",
                          !.todo = Track_get_all_need_transform(tracks, tl.max_id)]
    /\ UNCHANGED <<engineVars, albums, tracks, durable, appVars>>

\* one round of the track loop, up to its first yield if the track changed
G_Track ==
    /\ run.pc = "tracks"
    /\ \E track \in run.todo :
          LET after == TransformList_apply_track(tl, track).rec
              upd == IF after.transformed
                     THEN Track_update(tracks, after)
                     ELSE [table |-> tracks, raised |-> FALSE]
              commit == after.transformed /\ ~upd.raised /\ apply_transforms_update_commit
          IN  /\ tracks' = upd.table
              /\ durable' = commit_if(commit, albums, upd.table, durable)
              /\ run' = [run EXCEPT
                            !.pc = IF upd.raised THEN "raised"
                                   ELSE IF after.transformed THEN "track_lines"
                                   ELSE "tracks",
                            !.lines = IF after.transformed /\ ~upd.raised THEN 3 ELSE 0,
                            !.todo = run.todo \ {track},
                            !.max_track_id = IF track.pk > @ THEN track.pk ELSE @]
    /\ UNCHANGED <<engineVars, albums, appVars>>

\* if max_album_id > -1: the line is yielded before the update is executed
G_AlbumsLine ==
    /\ run.pc = "tracks"
    /\ run.todo = {}
    /\ run' = [run EXCEPT !.pc = IF run.max_album_id > -1 THEN "bulk_albums_line"
                                 ELSE "after_albums"]
    /\ UNCHANGED <<engineVars, albums, tracks, durable, appVars>>

\* mass update of album lasttransform IDs
G_BulkAlbums ==
    /\ run.pc = "bulk_albums"
    /\ albums' = bulk_update(albums, tl.max_id, run.max_album_id)
    /\ run' = [run EXCEPT !.pc = "after_albums"]
    /\ UNCHANGED <<engineVars, tracks, durable, appVars>>

\* if max_track_id > -1: the line is yielded before the update is executed
G_TracksLine ==
    /\ run.pc = "after_albums"
    /\ run' = [run EXCEPT !.pc = IF run.max_track_id > -1 THEN "bulk_tracks_line"
                                 ELSE "commit"]
    /\ UNCHANGED <<engineVars, albums, tracks, durable, appVars>>

\* mass update of track lasttransform IDs
G_BulkTracks ==
    /\ run.pc = "bulk_tracks"
    /\ tracks' = bulk_update(tracks, tl.max_id, run.max_track_id)
    /\ run' = [run EXCEPT !.pc = "commit"]
    /\ UNCHANGED <<engineVars, albums, durable, appVars>>

\* self.db.commit(): the generator is exhausted
G_Commit ==
    /\ run.pc = "commit"
    /\ durable' = db_commit(albums, tracks)
    /\ run' = [run EXCEPT !.pc = "done"]
    /\ UNCHANGED <<engineVars, albums, tracks, appVars>>

\* the consumer stops iterating and closes the App: the connection ends
\* and the database drops what was not committed.  The run keeps the
\* position it was stopped at and the tables its connection saw then.
G_Stop ==
    /\ run.pc \in Suspended
    /\ run' = [pc |-> "stopped", at |-> run.pc, origin |-> run.origin,
               left |-> db_commit(albums, tracks)]
    /\ albums' = durable.albums
    /\ tracks' = durable.tracks
    /\ UNCHANGED <<engineVars, durable, appVars>>

NextGen ==
    \/ R_AddTransform
    \/ R_InsertAlbum
    \/ R_InsertTrack
    \/ G_Create
    \/ G_Pull
    \/ G_Album
    \/ G_FetchTracks
    \/ G_Track
    \/ G_AlbumsLine
    \/ G_BulkAlbums
    \/ G_TracksLine
    \/ G_BulkTracks
    \/ G_Commit
    \/ G_Stop

SpecGen == InitRecon /\ [][NextGen]_vars

\* the watermarks of a table
Watermarks(table) == [i \in DOMAIN table |-> table[i].lasttransform]

\* the row is as the run found it, or as the per-record update of the run
\* wrote it
AlbumAsUpdated(row0, row, i) ==
    \/ row = row0
    \/ row = AlbumRow(TransformList_apply_album(tl, Album_from_database_row(i, row0)).rec)

C39_RunCompletes == run.pc # "raised"

====
